---- MODULE Spec2Model ----
(***************************************************************************)
(* Model of the finalization orchestrator of easy-peasy-ease               *)
(* (hooks/useFinalizeVideo.ts): one finalizeVideos call is a process that  *)
(* suspends at every awaited collaborator (remuxWithNewAudio, the source   *)
(* blob lookup, applySpeedCurve, prepareAudio, stitchVideos); the editor   *)
(* around it keeps the timeline segments and the last returned result.     *)
(*                                                                         *)
(* Durations are in tenths of a second (1.5 s = 15).  An absent optional   *)
(* number is Undef, an absent optional string is "undefined", an absent    *)
(* bezier tuple is the empty tuple.                                        *)
(***************************************************************************)
EXTENDS Integers, Sequences, FiniteSets, TLC

\* ---------------------------------------------------------------- bounds
MaxVideos == 3

\* ---------------------------------------------------------------- constants
Undef == -1
DEFAULT_OUTPUT_DURATION == 15
DEFAULT_EASING == "easeInOutSine"

Reasons == {"segment-change", "audio-file", "audio-fade"}

\* The optional fields a timeline segment can carry (TransitionVideo).
DefaultConfig ==
  [duration |-> Undef, easingPreset |-> "undefined", useCustomEasing |-> "undefined",
   customBezier |-> <<>>, file |-> 100, cachedBlob |-> Undef]

CustomConfig ==
  [duration |-> 20, easingPreset |-> "linear", useCustomEasing |-> "true",
   customBezier |-> <<42, 0, 58, 100>>, file |-> Undef, cachedBlob |-> 200]

SegmentConfigs == {DefaultConfig, CustomConfig}

\* TransitionVideo: loaded stands for (url && !loading).
Segment(id, loaded, c) ==
  [id |-> id, loaded |-> loaded, duration |-> c.duration, easingPreset |-> c.easingPreset,
   useCustomEasing |-> c.useCustomEasing, customBezier |-> c.customBezier,
   file |-> c.file, cachedBlob |-> c.cachedBlob]

Segments == { Segment(id, l, c) : id \in 1..MaxVideos, l \in BOOLEAN, c \in SegmentConfigs }

Ids(videos) == { videos[k].id : k \in DOMAIN videos }

\* the timelines the editor starts from: freshly added segments 1..n, not yet
\* configured, each one loaded or still loading
SegmentLists ==
  UNION { { [k \in 1..n |-> Segment(k, loaded[k], DefaultConfig)] : loaded \in [1..n -> BOOLEAN] } :
          n \in 0..MaxVideos }

\* ---------------------------------------------------------------- pure helpers
\* videos.filter((v) => v.url && !v.loading)
Loaded(videos) == SelectSeq(videos, LAMBDA v : v.loaded)

\* v.file?.size ?? v.cachedBlob?.size ?? 0
SourceSize(v) == IF v.file # Undef THEN v.file ELSE IF v.cachedBlob # Undef THEN v.cachedBlob ELSE 0

HashEntry(v) ==
  [id |-> v.id,
   duration |-> IF v.duration # Undef THEN v.duration ELSE DEFAULT_OUTPUT_DURATION,
   easingPreset |-> IF v.easingPreset # "undefined" THEN v.easingPreset ELSE DEFAULT_EASING,
   useCustomEasing |-> (v.useCustomEasing = "true"),
   customBezier |-> v.customBezier,
   sourceSize |-> SourceSize(v)]

\* JSON.stringify of the per-segment records, in timeline order.
computeConfigHash(videos) ==
  LET l == Loaded(videos) IN [k \in 1..Len(l) |-> HashEntry(l[k])]

\* segmentMetadata.duration ?? DEFAULT_OUTPUT_DURATION
TargetDuration(v) == IF v.duration # Undef THEN v.duration ELSE DEFAULT_OUTPUT_DURATION

\* the easing handed to applySpeedCurve
EasingFunction(v) ==
  IF v.useCustomEasing = "true" /\ v.customBezier # <<>>
    THEN [kind |-> "bezier", name |-> "", bezier |-> v.customBezier]
  ELSE IF v.easingPreset \notin {"undefined", ""}
    THEN [kind |-> "preset", name |-> v.easingPreset, bezier |-> <<>>]
  ELSE [kind |-> "preset", name |-> DEFAULT_EASING, bezier |-> <<>>]

\* transitionMap.get(video.id) ?? video : the last segment carrying that id
SegmentMetadata(videos, video) ==
  LET ks == { k \in DOMAIN videos : videos[k].id = video.id }
  IN videos[CHOOSE k \in ks : \A j \in ks : j <= k]

EmptyMap == [k \in {} |-> TRUE]
MapSet(m, key, val) == [k \in DOMAIN m \cup {key} |-> IF k = key THEN val ELSE m[k]]

NoCache == [some |-> FALSE, blobs |-> EmptyMap, configHash |-> <<>>]
NoResult == [some |-> FALSE, finalBlob |-> [via |-> "none", clips |-> <<>>, audio |-> FALSE],
             speedCurvedCache |-> NoCache]
NoError == [kind |-> "none", video |-> 0]

Terminal == {"complete", "error"}

\* ---------------------------------------------------------------- applySpeedCurve: numbers
\* most source frames the counting pass can find (exactFrameCount)
MaxFrames == 3
\* most output frames of a modelled applySpeedCurve call (totalOutputFrames)
MaxOutputFrames == 3
\* eased progress is taken in steps of 1/EaseScale
EaseScale == 2

\* a JavaScript number: the fraction num/den with den > 0; 0/0 is NaN
NaN == [num |-> 0, den |-> 0]
IsNaN(x) == x.den = 0
Num(n) == [num |-> n, den |-> 1]
\* a / b for integers a >= 0, b >= 0 with a = 0 whenever b = 0
Div(a, b) == IF b = 0 THEN NaN ELSE [num |-> a, den |-> b]
\* x * n for an integer n
Times(x, n) == IF IsNaN(x) THEN NaN ELSE [num |-> x.num * n, den |-> x.den]
\* x < y; false when either side is NaN
Lt(x, y) == ~IsNaN(x) /\ ~IsNaN(y) /\ x.num * y.den < y.num * x.den
\* Math.round: to the nearest integer, halves towards +Infinity
MathRound(x) == IF IsNaN(x) THEN NaN ELSE Num((2 * x.num + x.den) \div (2 * x.den))
\* Math.min: NaN when either argument is NaN
MathMin(x, y) == IF IsNaN(x) \/ IsNaN(y) THEN NaN ELSE IF Lt(y, x) THEN y ELSE x
\* Math.ceil of a number that is not NaN, as an integer
MathCeil(x) == -((-x.num) \div x.den)

\* seconds given in tenths of a second
Tenths(n) == [num |-> n, den |-> 10]

TARGET_FRAME_RATE == 30
\* const outputFrameRate = 30
outputFrameRate == 30
\* const frameDuration = 1 / outputFrameRate
frameDuration == Div(1, outputFrameRate)
\* const totalOutputFrames = Math.ceil(outputDuration * outputFrameRate)
totalOutputFrames(outputDuration) == MathCeil(Times(outputDuration, outputFrameRate))

\* the values an easing function can return
EaseValues == { [num |-> n, den |-> EaseScale] : n \in (-1)..(EaseScale + 1) }
\* easing(progressOut): any value; what an easing function makes of NaN is not fixed
Eased(progressOut) == IF IsNaN(progressOut) THEN EaseValues \cup {NaN} ELSE EaseValues

\* an output progress taken over the number of frames
ProgressOut_OverTotal(index, total) == Div(index, total)

\* const progressOut = i / (totalOutputFrames - 1)
ProgressOut(index, total) == Div(index, total - 1)

\* const targetInputIndex = Math.min(exactFrameCount - 1, Math.round(progressIn * (exactFrameCount - 1)))
TargetInputIndex(progressIn, frameCount) ==
  MathMin(Num(frameCount - 1), MathRound(Times(progressIn, frameCount - 1)))

\* the output durations applySpeedCurve is called with: 0 .. MaxOutputFrames frames
OutputDurations == { [num |-> n, den |-> 2 * outputFrameRate] : n \in 0..(2 * MaxOutputFrames) }

\* a padding frame stamped like the last real frame
PaddingTimestamp_LastFrame(total) == Times(frameDuration, total - 1)

\* const paddingTimestamp = totalOutputFrames * frameDuration
PaddingTimestamp(total) == Times(frameDuration, total)

\* a source sample as the pass-2 iterator yields it (frame = its index in the stream)
SourceSample(frame) ==
  [kind |-> "source", frame |-> frame, timestamp |-> Div(frame, TARGET_FRAME_RATE),
   duration |-> Div(1, TARGET_FRAME_RATE), closes |-> 0]

\* a clone that keeps the timing of the source sample
OutputSample_SourceTiming(sample, index) == [sample EXCEPT !.kind = "clone", !.closes = 0]

\* currentInputSample.clone() with setTimestamp(i * frameDuration), setDuration(frameDuration)
OutputSample(sample, index) ==
  [sample EXCEPT !.kind = "clone", !.closes = 0,
                 !.timestamp = Times(frameDuration, index), !.duration = frameDuration]

\* paddingSample: the clone stamped one interval past the last real frame
PaddingSample(sample, total) ==
  [sample EXCEPT !.kind = "clone", !.closes = 0,
                 !.timestamp = PaddingTimestamp(total), !.duration = frameDuration]

VARIABLES
  cpc,                    \* where the applySpeedCurve call is suspended
  outputDuration,         \* the outputDuration argument
  exactFrameCount,        \* what the counting pass returned
  frame,                  \* the loop variable i of the resample loop
  currentInputFrameIndex, \* the sequential cursor
  currentInputSample,     \* index into samples of the held sample, 0 = null
  iteratorDone,           \* the pass-2 iterator has reported done
  plan,                   \* per output frame: progressOut, progressIn, targetInputIndex
  samples,                \* every sample obtained or cloned, with the number of close() calls
  pending,                \* index into samples of the clone handed to videoSource.add, 0 = none
  encoder,                \* what videoSource and output received, in order
  status,                 \* status of the last SpeedCurveProgress
  message,                \* message of the thrown error
  returned                \* what applySpeedCurve returned

curveVars == <<cpc, outputDuration, exactFrameCount, frame, currentInputFrameIndex,
               currentInputSample, iteratorDone, plan, samples, pending, encoder, status,
               message, returned>>

\* applySpeedCurve has not been called
CurveIdle ==
  /\ cpc = "idle"
  /\ outputDuration = Num(0)
  /\ exactFrameCount = 0
  /\ frame = 0
  /\ currentInputFrameIndex = 0
  /\ currentInputSample = 0
  /\ iteratorDone = FALSE
  /\ plan = <<>>
  /\ samples = <<>>
  /\ pending = 0
  /\ encoder = <<>>
  /\ status = "idle"
  /\ message = "none"
  /\ returned = "nothing"

\* ---------------------------------------------------------------- applySpeedCurve: configuration
\* null, as the .catch handlers of the metadata probes return it
Null == [num |-> 0, den |-> -1]
IsNull(x) == x.den < 0
\* Number.isFinite
IsFinite(x) == ~IsNull(x) /\ ~IsNaN(x)
\* a value that passes an if (x) test
Truthy(x) == IsFinite(x) /\ x.num # 0
\* Math.floor of a finite number, as an integer
MathFloor(x) == x.num \div x.den
\* Math.max of two finite numbers
MathMax(x, y) == IF Lt(x, y) THEN y ELSE x
Min(a, b) == IF b < a THEN b ELSE a
Max(a, b) == IF b > a THEN b ELSE a

MAX_OUTPUT_FPS == 60
DEFAULT_BITRATE == 25000000
DEFAULT_INPUT_DURATION == 5
MOBILE_SAFE_BITRATE_CAP == 8000000
AVC_LEVEL_4_0 == "avc1.42C028"
AVC_LEVEL_4_2 == "avc1.42C02A"

Dims(w, h) == [width |-> w, height |-> h]
\* n & ~1 for n >= 0
Even(n) == n - (n % 2)

\* Math.round(n * scale) left as it is
Scaled_OddKept(n, scale) == MathRound(Times(scale, n)).num

\* Math.round(n * scale) & ~1
Scaled(n, scale) == Even(MathRound(Times(scale, n)).num)

\* sanitizeVideo: safeWidth and safeHeight, at most 1280 x 720
SafeDimensions(d) ==
  LET scale == MathMin(MathMin(Div(1280, d.width), Div(720, d.height)), Num(1))
  IN  Dims(Scaled(d.width, scale), Scaled(d.height, scale))

\* the measured bitrate is ignored
ResolvedBitrate_GivenOnly(rate, stats) ==
  LET given == IF IsFinite(rate) THEN rate ELSE Num(DEFAULT_BITRATE)
  IN  Min(Max(1, MathFloor(given)), MOBILE_SAFE_BITRATE_CAP)

\* let resolvedBitrate ... Math.min(Math.max(1, Math.floor(resolvedBitrate)), MOBILE_SAFE_BITRATE_CAP)
ResolvedBitrate(rate, stats) ==
  LET given    == IF IsFinite(rate) THEN rate ELSE Num(DEFAULT_BITRATE)
      measured == IF Truthy(stats.averageBitrate)
                    THEN MathMax(given, stats.averageBitrate)
                    ELSE given
  IN  Min(Max(1, MathFloor(measured)), MOBILE_SAFE_BITRATE_CAP)

\* a duration that is a number, finite and positive
Usable(d) == IsFinite(d) /\ d.num > 0

\* const resolvedDuration: track, then container, then the inputDuration argument
ResolvedDuration(track, container, fallback) ==
  IF Usable(track) THEN track ELSE IF Usable(container) THEN container ELSE fallback

\* const frameRate: the average packet rate, else TARGET_FRAME_RATE
ResolvedFrameRate(stats) ==
  IF Truthy(stats.averagePacketRate) THEN stats.averagePacketRate ELSE Num(TARGET_FRAME_RATE)

\* const targetFramerate
TargetFramerate(frameRate) ==
  LET sourceFrameRate == IF IsFinite(frameRate) THEN frameRate ELSE Num(TARGET_FRAME_RATE)
  IN  Min(MAX_OUTPUT_FPS, Max(15, MathRound(sourceFrameRate).num))

\* const tiers: Original, 1080p, 720p
Tiers(sourceWidth, sourceHeight, resolvedBitrate) ==
  << [label |-> "Original", width |-> sourceWidth, height |-> sourceHeight,
      bitrate |-> resolvedBitrate, codec |-> AVC_LEVEL_4_2],
     [label |-> "1080p", width |-> Min(sourceWidth, 1920), height |-> Min(sourceHeight, 1080),
      bitrate |-> Min(resolvedBitrate, 15000000), codec |-> AVC_LEVEL_4_0],
     [label |-> "720p", width |-> Min(sourceWidth, 1280), height |-> Min(sourceHeight, 720),
      bitrate |-> Min(resolvedBitrate, 5000000), codec |-> "avc1.42001f"] >>

\* targetWidth and targetHeight of one tier: the aspect ratio is kept when downscaling
TargetDimensions(tier, sourceWidth, sourceHeight) ==
  IF tier.width < sourceWidth \/ tier.height < sourceHeight
    THEN LET scale == MathMin(Div(tier.width, sourceWidth), Div(tier.height, sourceHeight))
         IN  Dims(Scaled(sourceWidth, scale), Scaled(sourceHeight, scale))
    ELSE Dims(tier.width, tier.height)

\* what canEncodeVideo is asked about one tier
TierProbe(tier, sourceWidth, sourceHeight, supported) ==
  [label |-> tier.label,
   width |-> TargetDimensions(tier, sourceWidth, sourceHeight).width,
   height |-> TargetDimensions(tier, sourceWidth, sourceHeight).height,
   bitrate |-> tier.bitrate, codec |-> tier.codec, supported |-> supported]

\* selectedConfig = { ...tier, width: targetWidth, height: targetHeight, framerate }
SelectedConfig(tier, sourceWidth, sourceHeight, frameRate) ==
  [label |-> tier.label,
   width |-> TargetDimensions(tier, sourceWidth, sourceHeight).width,
   height |-> TargetDimensions(tier, sourceWidth, sourceHeight).height,
   bitrate |-> tier.bitrate, codec |-> tier.codec, framerate |-> TargetFramerate(frameRate)]

NoConfig ==
  [label |-> "none", width |-> 0, height |-> 0, bitrate |-> 0, codec |-> "none", framerate |-> 0]
NoStats == [averageBitrate |-> Null, averagePacketRate |-> Null]
NoMetadata == [duration |-> NaN, bitrate |-> 0, frameRate |-> NaN]

\* a settled promise
Fulfilled(v) == [rejected |-> FALSE, value |-> v]
Rejected(v) == [rejected |-> TRUE, value |-> v]
\* promise.catch(() => fallback)
Catch(p, fallback) == IF p.rejected THEN fallback ELSE p.value

\* the raw clips handed to applySpeedCurve
SourceDimensions ==
  { Dims(853, 481), Dims(1279, 719), Dims(1920, 800), Dims(720, 1280), Dims(3840, 2160) }
\* the bitrate argument
BitrateArguments == { NaN, Num(4000000), Num(DEFAULT_BITRATE) }
\* how videoTrack.computeDuration() settles, in seconds
DurationOutcomes == { Rejected(NaN), Fulfilled(NaN), Fulfilled(Num(0)), Fulfilled(Num(4)) }
\* how input.computeDuration() settles
ContainerOutcomes == { Rejected(NaN), Fulfilled(Num(0)), Fulfilled(Num(4)) }
\* how videoTrack.computePacketStats() settles
StatsOutcomes ==
  { Rejected(NoStats) } \cup
  { Fulfilled([averageBitrate |-> b, averagePacketRate |-> r]) :
      b \in { NaN, Num(0), Div(12000001, 2), Num(20000000) }, r \in { NaN, Num(120) } }

VARIABLES
  dim,                    \* the dimensions of the raw clip, read by sanitizeVideo
  bitrate,                \* the bitrate argument
  inputDuration,          \* the inputDuration argument
  sanitized,              \* the dimensions of the sanitized clip
  trackDuration,          \* the four results of the metadata analysis
  containerDuration,
  packetStats,
  dimensions,
  metadata,               \* duration, bitrate, frameRate
  tierProbes,             \* the canEncodeVideo calls made so far, with what they reported
  selectedConfig          \* the accepted tier

configVars == <<dim, bitrate, inputDuration, sanitized, trackDuration, containerDuration,
                packetStats, dimensions, metadata, tierProbes, selectedConfig>>

\* nothing has been configured
ConfigIdle ==
  /\ dim = Dims(0, 0)
  /\ bitrate = NaN
  /\ inputDuration = NaN
  /\ sanitized = Dims(0, 0)
  /\ trackDuration = Null
  /\ containerDuration = Null
  /\ packetStats = NoStats
  /\ dimensions = Dims(0, 0)
  /\ metadata = NoMetadata
  /\ tierProbes = <<>>
  /\ selectedConfig = NoConfig

\* ---------------------------------------------------------------- applySpeedCurve: read handles
\* new Input({ source, formats }) for one pass
Open(handles, pass) ==
  Append(handles, [pass |-> pass, reads |-> 0, stale |-> 0, drained |-> FALSE, disposed |-> 0])
\* n samples are requested through handle k
Read(handles, k, n) ==
  [handles EXCEPT ![k].reads = @ + n,
                  ![k].stale = @ + (IF handles[k].drained \/ handles[k].disposed > 0
                                      THEN n ELSE 0)]
\* the iterator over handle k reports done
Drain(handles, k) == [handles EXCEPT ![k].drained = TRUE]
\* input.dispose() is called on handle k
Dispose(handles, k) == [handles EXCEPT ![k].disposed = @ + 1]

VARIABLES
  inputs,                 \* every Input opened by the call: pass, sample requests, dispose calls
  input,                  \* the variable input of applySpeedCurve: index into inputs, 0 = null
  warned                  \* how many dispose failures were caught and logged

passVars == <<inputs, input, warned>>

PassIdle ==
  /\ inputs = <<>>
  /\ input = 0
  /\ warned = 0

\* ---------------------------------------------------------------- applySpeedCurve: progress
\* most frames of a call whose progress reports are followed
MaxProgressFrames == 21
\* x + n for an integer n
Plus(x, n) == IF IsNaN(x) THEN NaN ELSE [num |-> x.num + n * x.den, den |-> x.den]
\* x * n / d for integers n and d > 0
Scale(x, n, d) == IF IsNaN(x) THEN NaN ELSE [num |-> x.num * n, den |-> x.den * d]
\* updateProgress(status, message, progressValue), with the loop index and the number of
\* frames emitted at that time
Update(st, msg, value, index, count) ==
  [status |-> st, message |-> msg, progress |-> value, i |-> index, emitted |-> count]
\* sanitizeVideo: Math.min(90, (processed / estimatedFrames) * 100), taken p * 0.3
SanitizeProgress(done) == Scale(MathMin(Num(90), Div(done * 100, 120)), 3, 10)

\* the share of the frames done, as a percentage of its own
ResampleProgress_Unscaled(index, total) == Div(index * 100, total)

\* 45 + Math.min(50, (i / totalOutputFrames) * 50)
ResampleProgress(index, total) == Plus(MathMin(Num(50), Div(index * 50, total)), 45)

VARIABLES
  reported,               \* every SpeedCurveProgress reported by the call, in order
  processed,              \* sanitizeVideo: frames copied
  emitted                 \* resample loop: frames handed to videoSource.add

progressVars == <<reported, processed, emitted>>

ProgressIdle ==
  /\ reported = <<>>
  /\ processed = 0
  /\ emitted = 0

\* ---------------------------------------------------------------- applyFades
\* longest audio buffer, in samples
MaxSamples == 4
\* highest sample rate, in samples per second
MaxSampleRate == 2
\* longest fade, in half seconds
MaxFadeHalves == 4

\* the audio buffers handed to applyFades
Buffers == { [length |-> n, sampleRate |-> r] : n \in 0..MaxSamples, r \in 1..MaxSampleRate }
\* a fade length as the caller gives it: missing, negative, zero or positive
FadeSeconds == { Null } \cup { Div(h, 2) : h \in (-1)..MaxFadeHalves }
\* AudioProcessingOptions
NoOptions == [some |-> FALSE, fadeIn |-> Null, fadeOut |-> Null]
FadeOptions ==
  { NoOptions } \cup { [some |-> TRUE, fadeIn |-> a, fadeOut |-> b] : a, b \in FadeSeconds }

\* Math.max(0, options.fadeIn ?? 0)
FadeLength(seconds) == MathMax(Num(0), IF IsNull(seconds) THEN Num(0) ELSE seconds)
\* Math.min(totalSamples, Math.floor(fadeSeconds * buffer.sampleRate))
FadeSamples(seconds, buf) == Min(buf.length, MathFloor(Times(FadeLength(seconds), buf.sampleRate)))

\* the two ramps at their full length
ScaledFade_Unscaled(n, fadeIn, fadeOut, totalSamples) == n

\* if (fadeInSamples + fadeOutSamples > totalSamples): both ramps are scaled down
ScaledFade(n, fadeIn, fadeOut, totalSamples) ==
  IF fadeIn + fadeOut > totalSamples
    THEN MathFloor(Times(Div(totalSamples, Max(1, fadeIn + fadeOut)), n))
    ELSE n

\* a sample no ramp has touched
Sample == [gain |-> Num(1), fadedIn |-> FALSE, fadedOut |-> FALSE]
\* x * y for two numbers
Multiply(x, y) == [num |-> x.num * y.num, den |-> x.den * y.den]
\* the fade-in loop: channelData[i] *= i / fadeInSamples
RampIn(data, fadeIn) ==
  [k \in DOMAIN data |->
     IF k - 1 < fadeIn
       THEN [data[k] EXCEPT !.gain = Multiply(@, Div(k - 1, fadeIn)), !.fadedIn = TRUE]
       ELSE data[k]]
\* the fade-out loop: channelData[sampleIndex] *= (fadeOutSamples - i) / fadeOutSamples
RampOut(data, fadeOut, totalSamples) ==
  [k \in DOMAIN data |->
     LET index == (k - 1) - (totalSamples - fadeOut)
     IN  IF index >= 0 /\ index < fadeOut
           THEN [data[k] EXCEPT !.gain = Multiply(@, Div(fadeOut - index, fadeOut)),
                                !.fadedOut = TRUE]
           ELSE data[k]]

VARIABLES
  buffer,                 \* the AudioBuffer: length and sampleRate
  options,                \* the AudioProcessingOptions
  channelData,            \* per sample: the gain applied and the ramps that touched it
  fadeInSamples,          \* the ramp lengths applyFades ended with
  fadeOutSamples,
  faded                   \* applyFades has returned

fadeVars == <<buffer, options, channelData, fadeInSamples, fadeOutSamples, faded>>

FadeIdle ==
  /\ buffer = [length |-> 0, sampleRate |-> 1]
  /\ options = NoOptions
  /\ channelData = <<>>
  /\ fadeInSamples = 0
  /\ fadeOutSamples = 0
  /\ faded = FALSE

\* ---------------------------------------------------------------- prepareAudio, remuxWithNewAudio
\* most decoded buffers of one audio file, and most samples of one decoded buffer
MaxBuffers == 2
MaxBufferLength == 2
\* most samples of the merged buffer, and the largest audio offset in samples
MaxTotalSamples == 4
MaxOffset == 5

\* the lists decodedBuffers can be after the decode loop, as the lengths of the buffers
BufferLists == UNION { [1..n -> 0..MaxBufferLength] : n \in 0..MaxBuffers }

RECURSIVE SumLengths(_)
SumLengths(buffers) ==
  IF buffers = <<>> THEN 0 ELSE Head(buffers) + SumLengths(Tail(buffers))

\* for (const buffer of decodedBuffers): one pass over the list, writing from offset
RECURSIVE CopyBuffers(_, _, _)
CopyBuffers(buffers, offset, total) ==
  IF buffers = <<>> \/ total - offset <= 0
    THEN offset
    ELSE CopyBuffers(Tail(buffers), offset + Min(Head(buffers), total - offset), total)

VARIABLES
  operation,              \* the audio operation that was called
  apc,                    \* where that call is
  audioInputs,            \* every Input the call constructed, and its dispose calls
  decodedBuffers,         \* the lengths of the decoded AudioBuffers
  mergedLength,           \* mergedBuffer.length, the totalSamples of the call
  writeOffset,
  samplesToSkip,
  bufferIndex,            \* 0-based, as in the source
  bufferOffset,
  fillTurns               \* parity of the turns the loop-fill while loop has taken

audioVars == <<operation, apc, audioInputs, decodedBuffers, mergedLength, writeOffset,
               samplesToSkip, bufferIndex, bufferOffset, fillTurns>>

AudioIdle ==
  /\ operation = "none"
  /\ apc = "idle"
  /\ audioInputs = <<>>
  /\ decodedBuffers = <<>>
  /\ mergedLength = 0
  /\ writeOffset = 0
  /\ samplesToSkip = 0
  /\ bufferIndex = 0
  /\ bufferOffset = 0
  /\ fillTurns = 0

\* ---------------------------------------------------------------- sanitizeVideo: copy loop
\* a VideoSample the sink handed to the copy loop: nothing decoded, nothing cloned yet
Fetched == [open |-> TRUE, clone |-> "none", videoFrame |-> "none", bitmap |-> "none"]

VARIABLES
  spc,                    \* where the sanitizeVideo call is
  fetched                 \* every sample of the copy loop, with its clone, frame and bitmap

sanitizeVars == <<spc, fetched>>

SanitizeIdle ==
  /\ spc = "idle"
  /\ fetched = <<>>

\* ---------------------------------------------------------------- useAudioVisualization
\* the audio files the user can choose (0 stands for null), and the most effect runs followed
MaxFiles == 2
MaxRuns == 3

VARIABLES
  audioFile,              \* the prop: 0 = null, otherwise the file
  waveformData,           \* state: 0 = null, otherwise the file the waveform was decoded from
  isLoading,              \* state
  waveformError,          \* state error: 0 = null, otherwise the file whose processing failed
  waveformCache,          \* the files with an entry in waveformCache
  runs                    \* every processAudio() started: file, isCancelled, stage

visualizationVars == <<audioFile, waveformData, isLoading, waveformError, waveformCache, runs>>

VisualizationIdle ==
  /\ audioFile = 0
  /\ waveformData = 0
  /\ isLoading = FALSE
  /\ waveformError = 0
  /\ waveformCache = {}
  /\ runs = <<>>

detailVars == <<configVars, passVars, progressVars, fadeVars, audioVars, sanitizeVars,
                visualizationVars>>
DetailIdle ==
  /\ ConfigIdle /\ PassIdle /\ ProgressIdle /\ FadeIdle /\ AudioIdle /\ SanitizeIdle
  /\ VisualizationIdle

VARIABLES
  transitionVideos, \* the timeline segments (the array handed to finalizeVideos)
  stored,           \* the cache of the last non-null FinalizeResult, kept by the editor
  storedFor,        \* the segments the stored cache was built from
  edited,           \* the user has edited the timeline
  context,          \* FinalizeContext of the current call
  pc,               \* where the current call is suspended
  path,             \* which pipeline the call has entered
  remuxTried,       \* the fast path was entered in this call
  i,                \* loop index of the full path (0-based)
  inFlight,         \* videoNumbers whose applySpeedCurve has not returned yet
  started,          \* videoNumbers in the order their pipeline was started
  speedCurvedBlobs, \* clips collected for the stitcher
  newCacheBlobs,    \* Map<number, Blob> built by the full path
  audioData,        \* prepareAudio produced a buffer
  ops,              \* collaborators invoked by this call, in order
  events,           \* progress events of this call, in order
  error,            \* the error carried by the 'error' event
  result            \* what the call returned (some = non-null)

vars == <<transitionVideos, stored, storedFor, edited, context, pc, path, remuxTried, i, inFlight,
          started, speedCurvedBlobs, newCacheBlobs, audioData, ops, events, error, result>>

callVars == <<context, pc, path, remuxTried, i, inFlight, started, speedCurvedBlobs,
              newCacheBlobs, audioData, ops, events, error, result>>

NoContext == [reason |-> "segment-change", previousFinalVideo |-> FALSE, audioBlob |-> FALSE,
              audioSettings |-> FALSE, cachedBlobs |-> NoCache]

Init ==
  /\ transitionVideos \in SegmentLists
  /\ stored = NoCache
  /\ storedFor = <<>>
  /\ edited = FALSE
  /\ context = NoContext
  /\ pc = "idle"
  /\ path = "none"
  /\ remuxTried = FALSE
  /\ i = 0
  /\ inFlight = {}
  /\ started = <<>>
  /\ speedCurvedBlobs = <<>>
  /\ newCacheBlobs = EmptyMap
  /\ audioData = FALSE
  /\ ops = <<>>
  /\ events = <<>>
  /\ error = NoError
  /\ result = NoResult
  /\ CurveIdle
  /\ DetailIdle

Event(stage, progress) == [stage |-> stage, progress |-> progress]

\* ---------------------------------------------------------------- finalizeVideos
\* the context a caller can hand in: a cache or a previous final video exists
\* only once an earlier call has returned one
Contexts ==
  { [reason |-> r, previousFinalVideo |-> p, audioBlob |-> a, audioSettings |-> s,
     cachedBlobs |-> c] :
      r \in Reasons, p \in {FALSE, stored.some}, a \in BOOLEAN, s \in BOOLEAN,
      c \in {NoCache, stored} }

\* a fast path that is tried for every reason
FastGuard_AnyReason(ctx) ==
  /\ ctx.previousFinalVideo
  /\ ctx.audioBlob
  /\ ctx.audioSettings
  /\ ctx.cachedBlobs.some

\* guard of the fast path
FastGuard(ctx) ==
  /\ ctx.reason = "audio-fade"
  /\ ctx.previousFinalVideo
  /\ ctx.audioBlob
  /\ ctx.audioSettings
  /\ ctx.cachedBlobs.some

\* a medium path that does not look at the reason
MediumGuard_AnyReason(ctx, totalVideos) ==
  /\ ctx.cachedBlobs.some
  /\ Cardinality(DOMAIN ctx.cachedBlobs.blobs) >= totalVideos

\* guard of the medium path
MediumGuard(ctx, totalVideos) ==
  /\ ctx.reason \in {"audio-file", "audio-fade"}
  /\ ctx.cachedBlobs.some
  /\ Cardinality(DOMAIN ctx.cachedBlobs.blobs) >= totalVideos

\* the first clips of the cache in the order of its keys, whatever the segments are
CachedInOrder_Insertion(ctx, l) ==
  LET keys == DOMAIN ctx.cachedBlobs.blobs
      n == Min(Len(l), Cardinality(keys))
      nth(k) == CHOOSE id \in keys : Cardinality({ j \in keys : j < id }) = k - 1
  IN [k \in 1..n |-> ctx.cachedBlobs.blobs[nth(k)]]

\* the cached clips of the leading segments, up to the first cache miss
CachedInOrder(ctx, l) ==
  LET hit(k) == l[k].id \in DOMAIN ctx.cachedBlobs.blobs
      n == Cardinality({ k \in DOMAIN l : \A j \in 1..k : hit(j) })
  IN [k \in 1..n |-> ctx.cachedBlobs.blobs[l[k].id]]

\* an Error('...') that names no segment
Error(kind) == [kind |-> kind, video |-> 0]

\* a failure message that does not say which video failed
ApplyError_NoNumber(videoNumber) == [kind |-> "apply", video |-> 0]

\* Error(`Failed to apply speed curve to video ${videoNumber}`)
ApplyError(videoNumber) == [kind |-> "apply", video |-> videoNumber]

\* a catch that returns null without reporting the error stage
Fail_Silent(err, evs) ==
  /\ events' = evs
  /\ error' = err
  /\ result' = NoResult
  /\ pc' = "done"
  /\ inFlight' = {}

\* the catch of finalizeVideos: one 'error' event, null returned
Fail(err, evs) ==
  /\ events' = evs \o << Event("error", 0) >>
  /\ error' = err
  /\ result' = NoResult
  /\ pc' = "done"
  /\ inFlight' = {}

\* a stitch announcement made before the audio step
AfterClips_StitchAnnouncedFirst(ctx, evs, o, mixAt, stitchAt) ==
  /\ error' = NoError
  /\ result' = NoResult
  /\ inFlight' = {}
  /\ IF ctx.audioBlob
       THEN /\ events' = evs \o << Event("stitching", stitchAt), Event("mixing-audio", mixAt) >>
            /\ ops' = Append(o, "prepareAudio")
            /\ pc' = "audio"
       ELSE /\ events' = evs \o << Event("stitching", stitchAt) >>
            /\ ops' = Append(o, "stitchVideos")
            /\ pc' = "stitch"

\* audio step and the stitch announcement, shared by the medium and full path
AfterClips(ctx, evs, o, mixAt, stitchAt) ==
  /\ error' = NoError
  /\ result' = NoResult
  /\ inFlight' = {}
  /\ IF ctx.audioBlob
       THEN /\ events' = evs \o << Event("mixing-audio", mixAt) >>
            /\ ops' = Append(o, "prepareAudio")
            /\ pc' = "audio"
       ELSE /\ events' = evs \o << Event("stitching", stitchAt) >>
            /\ ops' = Append(o, "stitchVideos")
            /\ pc' = "stitch"

\* everything below the fast path, up to the first await
MediumOrFull(ctx, evs, o) ==
  LET l == Loaded(transitionVideos)
      totalVideos == Len(l)
      cached == CachedInOrder(ctx, l)
  IN IF MediumGuard(ctx, totalVideos) /\ Len(cached) = totalVideos
       THEN /\ path' = "medium"
            /\ speedCurvedBlobs' = cached
            /\ AfterClips(ctx, evs \o << Event("stitching", 0) >>, o, 25, 25)
       ELSE /\ path' = "full"
            /\ speedCurvedBlobs' = <<>>
            /\ events' = evs \o
                 (IF MediumGuard(ctx, totalVideos) THEN << Event("stitching", 0) >> ELSE <<>>)
                 \o << Event("applying-curves", 0) >>
            /\ ops' = o
            /\ pc' = "loop"
            /\ error' = NoError
            /\ result' = NoResult
            /\ inFlight' = {}

Begin(ctx) ==
  /\ pc = "idle"
  /\ UNCHANGED <<curveVars, detailVars>>
  /\ context' = ctx
  /\ i' = 0
  /\ started' = <<>>
  /\ newCacheBlobs' = EmptyMap
  /\ audioData' = FALSE
  /\ UNCHANGED <<transitionVideos, stored, storedFor, edited>>
  /\ IF Len(transitionVideos) = 0
       THEN /\ Fail(Error("no-videos"), <<>>)
            /\ path' = "none" /\ remuxTried' = FALSE /\ ops' = <<>> /\ speedCurvedBlobs' = <<>>
     ELSE IF Len(Loaded(transitionVideos)) = 0
       THEN /\ Fail(Error("no-loaded"), <<>>)
            /\ path' = "none" /\ remuxTried' = FALSE /\ ops' = <<>> /\ speedCurvedBlobs' = <<>>
     ELSE IF FastGuard(ctx)
       THEN /\ path' = "fast"
            /\ remuxTried' = TRUE
            /\ events' = << Event("remuxing", 0) >>
            /\ ops' = << "remuxWithNewAudio" >>
            /\ pc' = "remux"
            /\ speedCurvedBlobs' = <<>>
            /\ error' = NoError /\ result' = NoResult /\ inFlight' = {}
     ELSE /\ remuxTried' = FALSE
          /\ MediumOrFull(ctx, <<>>, <<>>)

RemuxOutcomes == {"blob", "throw"}

\* a preserved cache whose hash is recomputed from the current segments
PreservedCache_Rehashed(ctx) ==
  [ctx.cachedBlobs EXCEPT !.configHash = computeConfigHash(transitionVideos)]

\* speedCurvedCache: context.cachedBlobs, the cache the fast and the medium path return
PreservedCache(ctx) == ctx.cachedBlobs

\* a remux failure that is reported instead of falling back
RemuxReturn_Fatal(outcome) ==
  /\ pc = "remux"
  /\ UNCHANGED <<curveVars, detailVars>>
  /\ UNCHANGED <<transitionVideos, stored, storedFor, edited, context, remuxTried, i, started,
                 newCacheBlobs, audioData, path, ops, speedCurvedBlobs>>
  /\ IF outcome = "blob"
       THEN /\ events' = events \o << Event("remuxing", 5), Event("remuxing", 100),
                                      Event("complete", 100) >>
            /\ result' = [some |-> TRUE,
                          finalBlob |-> [via |-> "remux", clips |-> <<>>, audio |-> TRUE],
                          speedCurvedCache |-> context.cachedBlobs]
            /\ pc' = "done"
            /\ UNCHANGED <<error, inFlight>>
       ELSE Fail(Error("remux"), Append(events, Event("remuxing", 5)))

\* remuxWithNewAudio settles
RemuxReturn(outcome) ==
  /\ pc = "remux"
  /\ UNCHANGED <<curveVars, detailVars>>
  /\ UNCHANGED <<transitionVideos, stored, storedFor, edited, context, remuxTried, i, started,
                 newCacheBlobs, audioData>>
  /\ IF outcome = "blob"
       THEN /\ events' = events \o << Event("remuxing", 5), Event("remuxing", 100),
                                      Event("complete", 100) >>
            /\ result' = [some |-> TRUE,
                          finalBlob |-> [via |-> "remux", clips |-> <<>>, audio |-> TRUE],
                          speedCurvedCache |-> PreservedCache(context)]
            /\ pc' = "done"
            /\ UNCHANGED <<path, ops, speedCurvedBlobs, error, inFlight>>
       ELSE MediumOrFull(context, Append(events, Event("remuxing", 5)), ops)

\* ---------------------------------------------------------------- full path
\* where the source blob of a segment can come from (tryGetReadableBlob, then fetch)
SourceOutcomes(meta) ==
  (IF meta.cachedBlob # Undef THEN {"cachedBlob"} ELSE {})
    \cup (IF meta.file # Undef THEN {"file"} ELSE {})
    \cup {"fetched", "fetch-failed"}

\* the clip applySpeedCurve produces for a segment
Clip(video, meta) ==
  [seg |-> video.id, duration |-> TargetDuration(meta),
   frames |-> totalOutputFrames(Tenths(TargetDuration(meta))),
   easing |-> EasingFunction(meta), made |-> "this-call"]

\* once the call is over its clips are clips of an earlier call
Aged(cache) ==
  [cache EXCEPT !.blobs = [k \in DOMAIN cache.blobs |->
                             [cache.blobs[k] EXCEPT !.made = "earlier-call"]]]

\* a clip cached under its loop index
CacheKey_Index(video, index) == index

\* newCacheBlobs.set(video.id, curvedBlob): the key under which a clip is cached
CacheKey(video, index) == video.id

\* a new cache that keeps the entries of the old one
BuildCache_Merge(ctx, blobs, videos) ==
  [some |-> TRUE,
   blobs |-> [k \in DOMAIN ctx.cachedBlobs.blobs \cup DOMAIN blobs |->
                IF k \in DOMAIN blobs THEN blobs[k] ELSE ctx.cachedBlobs.blobs[k]],
   configHash |-> computeConfigHash(videos)]

\* the cache the full path returns
BuildCache(ctx, blobs, videos) ==
  [some |-> TRUE, blobs |-> blobs, configHash |-> computeConfigHash(videos)]

\* a loop that starts the next pipeline without awaiting the one in flight
StartSegment_Parallel(src) ==
  LET l == Loaded(transitionVideos)
      videoNumber == Len(started) + 1
  IN /\ pc \in {"loop", "apply"}
     /\ UNCHANGED <<curveVars, detailVars>>
     /\ videoNumber <= Len(l)
     /\ src \in SourceOutcomes(SegmentMetadata(transitionVideos, l[videoNumber])) \ {"fetch-failed"}
     /\ events' = Append(events, Event("applying-curves", ((videoNumber - 1) * 50) \div Len(l)))
     /\ ops' = Append(ops, "applySpeedCurve")
     /\ inFlight' = inFlight \cup {videoNumber}
     /\ started' = Append(started, videoNumber)
     /\ pc' = "apply"
     /\ UNCHANGED <<transitionVideos, stored, storedFor, edited, context, path, remuxTried, i,
                    speedCurvedBlobs, newCacheBlobs, audioData, error, result>>

\* one loop iteration up to the await of applySpeedCurve
StartSegment(src) ==
  LET l == Loaded(transitionVideos)
      totalVideos == Len(l)
      video == l[i + 1]
      videoNumber == i + 1
      meta == SegmentMetadata(transitionVideos, video)
  IN /\ pc = "loop"
     /\ UNCHANGED <<curveVars, detailVars>>
     /\ i < totalVideos
     /\ src \in SourceOutcomes(meta)
     /\ UNCHANGED <<transitionVideos, stored, storedFor, edited, context, path, remuxTried, i,
                    speedCurvedBlobs, newCacheBlobs, audioData>>
     /\ IF src = "fetch-failed"
          THEN /\ Fail(Error("fetch"), events)
               /\ UNCHANGED <<started, ops>>
          ELSE /\ events' = Append(events, Event("applying-curves", (i * 50) \div totalVideos))
               /\ ops' = Append(ops, "applySpeedCurve")
               /\ inFlight' = inFlight \cup {videoNumber}
               /\ started' = Append(started, videoNumber)
               /\ pc' = "apply"
               /\ UNCHANGED <<error, result>>

ApplyOutcomes == {"blob", "null"}

\* applySpeedCurve settles for segment i
ApplyReturn(outcome) ==
  LET l == Loaded(transitionVideos)
      totalVideos == Len(l)
      video == l[i + 1]
      videoNumber == i + 1
      meta == SegmentMetadata(transitionVideos, video)
      curvedBlob == Clip(video, meta)
      inner == Event("applying-curves", (i * 50) \div totalVideos)
  IN /\ pc = "apply"
     /\ UNCHANGED <<curveVars, detailVars>>
     /\ UNCHANGED <<transitionVideos, stored, storedFor, edited, context, path, remuxTried,
                    started, audioData>>
     /\ IF outcome = "null"
          THEN /\ Fail(ApplyError(videoNumber), Append(events, inner))
               /\ UNCHANGED <<i, speedCurvedBlobs, newCacheBlobs, ops>>
          ELSE /\ speedCurvedBlobs' = Append(speedCurvedBlobs, curvedBlob)
               /\ newCacheBlobs' = MapSet(newCacheBlobs, CacheKey(video, i), curvedBlob)
               /\ i' = i + 1
               /\ IF i + 1 < totalVideos
                    THEN /\ pc' = "loop"
                         /\ events' = Append(events, inner)
                         /\ inFlight' = inFlight \ {videoNumber}
                         /\ UNCHANGED <<ops, error, result>>
                    ELSE AfterClips(context, Append(events, inner), ops, 50, 50)

PrepareAudioOutcomes == {"data", "throw"}

\* an audio failure that ends the call
PrepareAudioReturn_Fatal(outcome) ==
  /\ pc = "audio"
  /\ UNCHANGED <<curveVars, detailVars>>
  /\ UNCHANGED <<transitionVideos, stored, storedFor, edited, context, path, remuxTried, i,
                 started, speedCurvedBlobs, newCacheBlobs>>
  /\ IF outcome = "data"
       THEN /\ audioData' = TRUE
            /\ events' = events \o
                 << Event("mixing-audio", (IF path = "medium" THEN 25 ELSE 50) + (10 * 25) \div 100),
                    Event("stitching", (IF path = "medium" THEN 25 ELSE 50) + 25) >>
            /\ ops' = Append(ops, "stitchVideos")
            /\ pc' = "stitch"
            /\ UNCHANGED <<inFlight, error, result>>
       ELSE /\ Fail(Error("audio"), events)
            /\ UNCHANGED <<audioData, ops>>

\* prepareAudio settles; its failure is swallowed
PrepareAudioReturn(outcome) ==
  LET base == IF path = "medium" THEN 25 ELSE 50
      got == (outcome = "data")
  IN /\ pc = "audio"
     /\ UNCHANGED <<curveVars, detailVars>>
     /\ audioData' = got
     /\ events' = events \o << Event("mixing-audio", base + (10 * 25) \div 100),
                               Event("stitching", IF got THEN base + 25 ELSE base) >>
     /\ ops' = Append(ops, "stitchVideos")
     /\ pc' = "stitch"
     /\ UNCHANGED <<transitionVideos, stored, storedFor, edited, context, path, remuxTried, i,
                    inFlight, started, speedCurvedBlobs, newCacheBlobs, error, result>>

StitchOutcomes == {"blob", "null", "throw"}

\* stitchVideos settles
StitchReturn(outcome) ==
  /\ pc = "stitch"
  /\ UNCHANGED <<curveVars, detailVars>>
  /\ UNCHANGED <<transitionVideos, stored, storedFor, edited, context, path, remuxTried, i,
                 started, speedCurvedBlobs, newCacheBlobs, audioData, ops>>
  /\ IF outcome = "blob"
       THEN /\ events' = Append(events, Event("complete", 100))
            /\ result' =
                 [some |-> TRUE,
                  finalBlob |-> [via |-> "stitch", clips |-> speedCurvedBlobs, audio |-> audioData],
                  speedCurvedCache |->
                    IF path = "medium" THEN PreservedCache(context)
                    ELSE BuildCache(context, newCacheBlobs, transitionVideos)]
            /\ pc' = "done"
            /\ UNCHANGED <<error, inFlight>>
       ELSE Fail(Error(IF outcome = "null" THEN "stitch" ELSE "stitch-threw"), events)

\* ---------------------------------------------------------------- the editor around the hook
\* the caller receives the result and keeps a non-null one for the next context
Return ==
  /\ pc = "done"
  /\ UNCHANGED <<curveVars, detailVars>>
  /\ stored' = IF result.some THEN Aged(result.speedCurvedCache) ELSE stored
  /\ storedFor' = IF result.some /\ path = "full" THEN transitionVideos ELSE storedFor
  /\ pc' = "idle"
  /\ context' = NoContext
  /\ path' = "none"
  /\ remuxTried' = FALSE
  /\ i' = 0
  /\ inFlight' = {}
  /\ started' = <<>>
  /\ speedCurvedBlobs' = <<>>
  /\ newCacheBlobs' = EmptyMap
  /\ audioData' = FALSE
  /\ ops' = <<>>
  /\ events' = <<>>
  /\ error' = NoError
  /\ result' = NoResult
  /\ UNCHANGED <<transitionVideos, edited>>

\* a segment that was loading becomes available
VideoLoaded(k) ==
  /\ pc = "idle"
  /\ UNCHANGED <<curveVars, detailVars>>
  /\ k \in DOMAIN transitionVideos
  /\ ~transitionVideos[k].loaded
  /\ transitionVideos' = [transitionVideos EXCEPT ![k].loaded = TRUE]
  /\ UNCHANGED <<stored, storedFor, edited>>
  /\ UNCHANGED callVars

\* the user appends a segment (ids are handed out in creation order)
AddSegment(seg) ==
  /\ pc = "idle"
  /\ UNCHANGED <<curveVars, detailVars>>
  /\ ~edited
  /\ Len(transitionVideos) < MaxVideos
  /\ seg.id \notin Ids(transitionVideos)
  /\ \A id \in Ids(transitionVideos) : id < seg.id
  /\ transitionVideos' = Append(transitionVideos, seg)
  /\ edited' = TRUE
  /\ UNCHANGED <<stored, storedFor>>
  /\ UNCHANGED callVars

\* the user deletes a segment
RemoveSegment(k) ==
  /\ pc = "idle"
  /\ UNCHANGED <<curveVars, detailVars>>
  /\ ~edited
  /\ k \in DOMAIN transitionVideos
  /\ transitionVideos' = [j \in 1..(Len(transitionVideos) - 1) |->
                            IF j < k THEN transitionVideos[j] ELSE transitionVideos[j + 1]]
  /\ edited' = TRUE
  /\ UNCHANGED <<stored, storedFor>>
  /\ UNCHANGED callVars

\* the user changes duration, easing or source of a segment
UpdateSegment(k, c) ==
  /\ pc = "idle"
  /\ UNCHANGED <<curveVars, detailVars>>
  /\ ~edited
  /\ k \in DOMAIN transitionVideos
  /\ Segment(transitionVideos[k].id, transitionVideos[k].loaded, c) # transitionVideos[k]
  /\ transitionVideos' =
       [transitionVideos EXCEPT ![k] = Segment(transitionVideos[k].id, transitionVideos[k].loaded, c)]
  /\ edited' = TRUE
  /\ UNCHANGED <<stored, storedFor>>
  /\ UNCHANGED callVars

Next ==
  \/ \E ctx \in Contexts : Begin(ctx)
  \/ \E o \in RemuxOutcomes : RemuxReturn(o)
  \/ \E src \in {"cachedBlob", "file", "fetched", "fetch-failed"} : StartSegment(src)
  \/ \E o \in ApplyOutcomes : ApplyReturn(o)
  \/ \E o \in PrepareAudioOutcomes : PrepareAudioReturn(o)
  \/ \E o \in StitchOutcomes : StitchReturn(o)
  \/ Return
  \/ \E k \in 1..MaxVideos : VideoLoaded(k)
  \/ \E seg \in Segments : AddSegment(seg)
  \/ \E k \in 1..MaxVideos : RemoveSegment(k)
  \/ \E k \in 1..MaxVideos, c \in SegmentConfigs : UpdateSegment(k, c)

allVars == <<vars, curveVars, detailVars>>
\* what the configuration steps and the passes leave alone
exceptConfig ==
  <<vars, passVars, progressVars, fadeVars, audioVars, sanitizeVars,
    visualizationVars>>
exceptPasses ==
  <<vars, configVars, progressVars, fadeVars, audioVars, sanitizeVars,
    visualizationVars>>
exceptProgress ==
  <<vars, configVars, passVars, fadeVars, audioVars, sanitizeVars,
    visualizationVars>>
exceptFades ==
  <<vars, curveVars, configVars, passVars, progressVars, audioVars, sanitizeVars,
    visualizationVars>>
exceptAudio ==
  <<vars, curveVars, configVars, passVars, progressVars, fadeVars, sanitizeVars,
    visualizationVars>>
exceptSanitize ==
  <<vars, curveVars, configVars, passVars, progressVars, fadeVars, audioVars,
    visualizationVars>>
exceptVisualization ==
  <<vars, curveVars, configVars, passVars, progressVars, fadeVars, audioVars, sanitizeVars>>

Spec == Init /\ [][Next]_allVars

\* ---------------------------------------------------------------- applySpeedCurve
\* what videoSource (add, close) and output (start, finalize) are asked to do
NoSample == [kind |-> "none", frame |-> -1, timestamp |-> NaN, duration |-> NaN, closes |-> 0]
Op(op) == [op |-> op, slot |-> "none", sample |-> NoSample]
Add(slot, sample) == [op |-> "add", slot |-> slot, sample |-> sample]

\* sample.close()
Close(smpls, k) == [smpls EXCEPT ![k].closes = @ + 1]

\* how many samples the pass-2 iterator has yielded
Yielded(smpls) == Cardinality({ k \in DOMAIN smpls : smpls[k].kind = "source" })

\* a finally block that leaves the held sample open
Finally_NoClose(smpls, held) == smpls

\* finally: close the sample that is still held
Finally(smpls, held) == IF held # 0 THEN Close(smpls, held) ELSE smpls

\* catch and finally of applySpeedCurve: status 'error', null returned
Throw(msg, smpls, held) ==
  /\ status' = "error"
  /\ message' = msg
  /\ returned' = "null"
  /\ samples' = Finally(smpls, held)
  /\ currentInputSample' = 0
  /\ pending' = 0
  /\ cpc' = "returned"

\* applySpeedCurve is called; sanitizeVideo starts
Call(d) ==
  /\ cpc = "idle"
  /\ outputDuration' = d
  /\ status' = "processing"
  /\ cpc' = "sanitize"
  /\ UNCHANGED <<exactFrameCount, frame, currentInputFrameIndex, currentInputSample,
                 iteratorDone, plan, samples, pending, encoder, message, returned>>
  /\ UNCHANGED <<vars, detailVars>>

SanitizeOutcomes == {"blob", "throw"}

\* sanitizeVideo settles
SanitizeReturn(o) ==
  /\ cpc = "sanitize"
  /\ IF o = "blob"
       THEN /\ cpc' = "analyze"
            /\ UNCHANGED <<status, message, returned, samples, currentInputSample, pending>>
       ELSE Throw("Sanitization failed", samples, currentInputSample)
  /\ UNCHANGED <<outputDuration, exactFrameCount, frame, currentInputFrameIndex, iteratorDone,
                 plan, encoder>>
  /\ UNCHANGED <<vars, detailVars>>

AnalyzeOutcomes == {"tracks", "no-tracks"}

\* the metadata input is opened and analysed
AnalyzeReturn(o) ==
  /\ cpc = "analyze"
  /\ IF o = "tracks"
       THEN /\ cpc' = "count"
            /\ UNCHANGED <<status, message, returned, samples, currentInputSample, pending>>
       ELSE Throw("No video tracks found in input", samples, currentInputSample)
  /\ UNCHANGED <<outputDuration, exactFrameCount, frame, currentInputFrameIndex, iteratorDone,
                 plan, encoder>>
  /\ UNCHANGED <<vars, detailVars>>

\* countDecodableFrames: the number of samples drained, 0 on no track or on an error
CountOutcomes == 0..MaxFrames

\* a counting pass whose result is used whatever it is
CountReturn_ZeroAccepted(n) ==
  /\ cpc = "count"
  /\ exactFrameCount' = n
  /\ cpc' = "configure"
  /\ UNCHANGED <<status, message, returned, samples, currentInputSample, pending>>
  /\ UNCHANGED <<outputDuration, frame, currentInputFrameIndex, iteratorDone, plan, encoder>>
  /\ UNCHANGED <<vars, detailVars>>

\* pass 1 settles
CountReturn(n) ==
  /\ cpc = "count"
  /\ exactFrameCount' = n
  /\ IF n = 0
       THEN Throw("Could not decode any frames from the input video", samples, currentInputSample)
       ELSE /\ cpc' = "configure"
            /\ UNCHANGED <<status, message, returned, samples, currentInputSample, pending>>
  /\ UNCHANGED <<outputDuration, frame, currentInputFrameIndex, iteratorDone, plan, encoder>>
  /\ UNCHANGED <<vars, detailVars>>

ConfigureOutcomes == {"started", "no-tracks", "unsupported", "start-failed"}

\* the encoding input is reopened, a tier is negotiated, videoSource and output are created
\* and output.start() settles
ConfigureReturn(o) ==
  /\ cpc = "configure"
  /\ IF o = "started"
       THEN /\ encoder' = << Op("start") >>
            /\ cpc' = "first"
            /\ UNCHANGED <<status, message, returned, samples, currentInputSample, pending>>
       ELSE /\ Throw(o, samples, currentInputSample)
            /\ UNCHANGED encoder
  /\ UNCHANGED <<outputDuration, exactFrameCount, frame, currentInputFrameIndex, iteratorDone,
                 plan>>
  /\ UNCHANGED <<vars, detailVars>>

\* after the for loop: the padding frame, the cleanup of the held sample, videoSource.close()
AfterLoop(smpls, held, enc) ==
  LET total == totalOutputFrames(outputDuration)
  IN IF held # 0
       THEN /\ samples' = Append(smpls, PaddingSample(smpls[held], total))
            /\ pending' = Len(smpls) + 1
            /\ encoder' = Append(enc, Add("padding", PaddingSample(smpls[held], total)))
            /\ currentInputSample' = held
            /\ cpc' = "padding"
       ELSE /\ samples' = smpls
            /\ pending' = 0
            /\ encoder' = Append(enc, Op("close"))
            /\ currentInputSample' = 0
            /\ cpc' = "closing"

\* the for condition i < totalOutputFrames
Continue(index, smpls, held, enc) ==
  IF index < totalOutputFrames(outputDuration)
    THEN /\ samples' = smpls
         /\ pending' = 0
         /\ encoder' = enc
         /\ currentInputSample' = held
         /\ cpc' = "loop"
    ELSE AfterLoop(smpls, held, enc)

IteratorOutcomes == {"sample", "done", "throw"}

\* const nextSample = await sampleIterator.next() settles
FirstSample(o) ==
  /\ cpc = "first"
  /\ \/ /\ o = "sample"
        /\ Continue(0, Append(samples, SourceSample(Yielded(samples))), Len(samples) + 1, encoder)
        /\ UNCHANGED <<iteratorDone, status, message, returned>>
     \/ /\ o = "done"
        /\ iteratorDone' = TRUE
        /\ Continue(0, samples, 0, encoder)
        /\ UNCHANGED <<status, message, returned>>
     \/ /\ o = "throw"
        /\ Throw("decode error", samples, currentInputSample)
        /\ UNCHANGED <<iteratorDone, encoder>>
  /\ UNCHANGED <<outputDuration, exactFrameCount, frame, currentInputFrameIndex, plan>>
  /\ UNCHANGED <<vars, detailVars>>

\* step 5 of an iteration: clone the held sample and hand it to videoSource.add
Emit(smpls, held) ==
  IF held # 0
    THEN /\ samples' = Append(smpls, OutputSample(smpls[held], frame))
         /\ pending' = Len(smpls) + 1
         /\ encoder' = Append(encoder, Add("real", OutputSample(smpls[held], frame)))
         /\ currentInputSample' = held
         /\ cpc' = "adding"
         /\ frame' = frame
    ELSE /\ frame' = frame + 1
         /\ Continue(frame + 1, smpls, held, encoder)

\* while (currentInputFrameIndex < targetInputIndex && currentInputSample)
Advancing(cursor, target, held) == Lt(Num(cursor), target) /\ held # 0

\* steps 1 to 3 of an iteration and the first test of the while loop
Iterate(progressIn) ==
  LET total == totalOutputFrames(outputDuration)
      progressOut == ProgressOut(frame, total)
      targetInputIndex == TargetInputIndex(progressIn, exactFrameCount)
  IN /\ cpc = "loop"
     /\ frame < total
     /\ progressIn \in Eased(progressOut)
     /\ plan' = Append(plan, [progressOut |-> progressOut, progressIn |-> progressIn,
                              targetInputIndex |-> targetInputIndex])
     /\ IF Advancing(currentInputFrameIndex, targetInputIndex, currentInputSample)
          THEN /\ cpc' = "advance"
               /\ UNCHANGED <<samples, pending, encoder, currentInputSample, frame>>
          ELSE Emit(samples, currentInputSample)
     /\ UNCHANGED <<outputDuration, exactFrameCount, currentInputFrameIndex, iteratorDone,
                    status, message, returned>>
     /\ UNCHANGED <<vars, detailVars>>

\* an advance that forgets to count the sample it fetched
Advance_NoCount(o) ==
  LET targetInputIndex == plan[Len(plan)].targetInputIndex
      next == Append(Close(samples, currentInputSample), SourceSample(Yielded(samples)))
  IN /\ cpc = "advance"
     /\ \/ /\ o = "sample"
           /\ ~iteratorDone
           /\ currentInputFrameIndex' = currentInputFrameIndex
           /\ Emit(next, Len(next))
           /\ UNCHANGED <<iteratorDone, status, message, returned>>
        \/ /\ o = "done"
           /\ iteratorDone' = TRUE
           /\ Emit(samples, currentInputSample)
           /\ UNCHANGED <<currentInputFrameIndex, status, message, returned>>
        \/ /\ o = "throw"
           /\ ~iteratorDone
           /\ Throw("decode error", samples, currentInputSample)
           /\ UNCHANGED <<currentInputFrameIndex, iteratorDone, encoder, frame>>
     /\ UNCHANGED <<outputDuration, exactFrameCount, plan>>
     /\ UNCHANGED <<vars, detailVars>>

\* const result = await sampleIterator.next() settles inside the while loop
Advance(o) ==
  LET targetInputIndex == plan[Len(plan)].targetInputIndex
      next == Append(Close(samples, currentInputSample), SourceSample(Yielded(samples)))
  IN /\ cpc = "advance"
     /\ \/ /\ o = "sample"
           /\ ~iteratorDone
           /\ currentInputFrameIndex' = currentInputFrameIndex + 1
           /\ IF Advancing(currentInputFrameIndex + 1, targetInputIndex, Len(next))
                THEN /\ samples' = next
                     /\ currentInputSample' = Len(next)
                     /\ cpc' = "advance"
                     /\ UNCHANGED <<pending, encoder, frame>>
                ELSE Emit(next, Len(next))
           /\ UNCHANGED <<iteratorDone, status, message, returned>>
        \/ /\ o = "done"
           /\ iteratorDone' = TRUE
           /\ Emit(samples, currentInputSample)
           /\ UNCHANGED <<currentInputFrameIndex, status, message, returned>>
        \/ /\ o = "throw"
           /\ ~iteratorDone
           /\ Throw("decode error", samples, currentInputSample)
           /\ UNCHANGED <<currentInputFrameIndex, iteratorDone, encoder, frame>>
     /\ UNCHANGED <<outputDuration, exactFrameCount, plan>>
     /\ UNCHANGED <<vars, detailVars>>

AddOutcomes == {"ok", "throw"}

\* a clone that is closed only after a successful add
AddReturn_CloseOnSuccess(o) ==
  /\ cpc = "adding"
  /\ IF o = "ok"
       THEN /\ frame' = frame + 1
            /\ Continue(frame + 1, Close(samples, pending), currentInputSample, encoder)
            /\ UNCHANGED <<status, message, returned>>
       ELSE /\ Throw("encode error", samples, currentInputSample)
            /\ UNCHANGED <<frame, encoder>>
  /\ UNCHANGED <<outputDuration, exactFrameCount, currentInputFrameIndex, iteratorDone, plan>>
  /\ UNCHANGED <<vars, detailVars>>

\* await videoSource.add(outputSample) settles; finally outputSample.close()
AddReturn(o) ==
  /\ cpc = "adding"
  /\ IF o = "ok"
       THEN /\ frame' = frame + 1
            /\ Continue(frame + 1, Close(samples, pending), currentInputSample, encoder)
            /\ UNCHANGED <<status, message, returned>>
       ELSE /\ Throw("encode error", Close(samples, pending), currentInputSample)
            /\ UNCHANGED <<frame, encoder>>
  /\ UNCHANGED <<outputDuration, exactFrameCount, currentInputFrameIndex, iteratorDone, plan>>
  /\ UNCHANGED <<vars, detailVars>>

\* a clean-up that closes the held sample and keeps holding it
PaddingReturn_KeepsHeld(o) ==
  /\ cpc = "padding"
  /\ samples' = Close(Close(samples, pending), currentInputSample)
  /\ pending' = 0
  /\ encoder' = Append(encoder, Op("close"))
  /\ cpc' = "closing"
  /\ UNCHANGED <<outputDuration, exactFrameCount, frame, currentInputFrameIndex, iteratorDone,
                 plan, status, message, returned, currentInputSample>>
  /\ UNCHANGED <<vars, detailVars>>

\* await videoSource.add(paddingSample) settles (a failure is only logged); the padding clone
\* and the held sample are closed and videoSource.close() is called
PaddingReturn(o) ==
  /\ cpc = "padding"
  /\ samples' = Close(Close(samples, pending), currentInputSample)
  /\ pending' = 0
  /\ currentInputSample' = 0
  /\ encoder' = Append(encoder, Op("close"))
  /\ cpc' = "closing"
  /\ UNCHANGED <<outputDuration, exactFrameCount, frame, currentInputFrameIndex, iteratorDone,
                 plan, status, message, returned>>
  /\ UNCHANGED <<vars, detailVars>>

\* await videoSource.close() settles; output.finalize() is called
CloseReturn(o) ==
  /\ cpc = "closing"
  /\ IF o = "ok"
       THEN /\ encoder' = Append(encoder, Op("finalize"))
            /\ cpc' = "finalizing"
            /\ UNCHANGED <<status, message, returned, samples, currentInputSample, pending>>
       ELSE /\ Throw("close error", samples, currentInputSample)
            /\ UNCHANGED encoder
  /\ UNCHANGED <<outputDuration, exactFrameCount, frame, currentInputFrameIndex, iteratorDone,
                 plan>>
  /\ UNCHANGED <<vars, detailVars>>

FinalizeOutcomes == {"buffer", "no-buffer", "throw"}

\* await output.finalize() settles; the blob is returned through the finally block
FinalizeReturn(o) ==
  /\ cpc = "finalizing"
  /\ IF o = "buffer"
       THEN /\ status' = "complete"
            /\ returned' = "blob"
            /\ samples' = Finally(samples, currentInputSample)
            /\ currentInputSample' = 0
            /\ cpc' = "returned"
            /\ UNCHANGED <<message, pending>>
       ELSE Throw(IF o = "throw" THEN "finalize error" ELSE "Failed to generate output buffer",
                  samples, currentInputSample)
  /\ UNCHANGED <<outputDuration, exactFrameCount, frame, currentInputFrameIndex, iteratorDone,
                 plan, encoder>>
  /\ UNCHANGED <<vars, detailVars>>

\* no finalizeVideos call is under way
HookIdle ==
  /\ transitionVideos = <<>>
  /\ stored = NoCache
  /\ storedFor = <<>>
  /\ edited = FALSE
  /\ context = NoContext
  /\ pc = "idle"
  /\ path = "none"
  /\ remuxTried = FALSE
  /\ i = 0
  /\ inFlight = {}
  /\ started = <<>>
  /\ speedCurvedBlobs = <<>>
  /\ newCacheBlobs = EmptyMap
  /\ audioData = FALSE
  /\ ops = <<>>
  /\ events = <<>>
  /\ error = NoError
  /\ result = NoResult

CurveInit == HookIdle /\ CurveIdle /\ DetailIdle

CurveNext ==
  \/ \E d \in OutputDurations : Call(d)
  \/ \E o \in SanitizeOutcomes : SanitizeReturn(o)
  \/ \E o \in AnalyzeOutcomes : AnalyzeReturn(o)
  \/ \E n \in CountOutcomes : CountReturn(n)
  \/ \E o \in ConfigureOutcomes : ConfigureReturn(o)
  \/ \E o \in IteratorOutcomes : FirstSample(o)
  \/ \E e \in EaseValues \cup {NaN} : Iterate(e)
  \/ \E o \in IteratorOutcomes : Advance(o)
  \/ \E o \in AddOutcomes : AddReturn(o)
  \/ \E o \in AddOutcomes : PaddingReturn(o)
  \/ \E o \in AddOutcomes : CloseReturn(o)
  \/ \E o \in FinalizeOutcomes : FinalizeReturn(o)

SpecCurve == CurveInit /\ [][CurveNext]_allVars

\* ---------------------------------------------------------------- applySpeedCurve: configuration steps
\* the call goes on without an error
Proceed(to) ==
  /\ cpc' = to
  /\ UNCHANGED <<status, message, returned, samples, currentInputSample, pending>>

\* applySpeedCurve(rawVideoBlob, inputDuration, outputDuration, onProgress, easing, bitrate)
ApplySpeedCurve(raw, rate) ==
  /\ cpc = "idle"
  /\ dim' = raw
  /\ bitrate' = rate
  /\ inputDuration' = Num(DEFAULT_INPUT_DURATION)
  /\ outputDuration' = Tenths(DEFAULT_OUTPUT_DURATION)
  /\ status' = "processing"
  /\ cpc' = "sanitize"
  /\ UNCHANGED <<exactFrameCount, frame, currentInputFrameIndex, currentInputSample,
                 iteratorDone, plan, samples, pending, encoder, message, returned>>
  /\ UNCHANGED <<sanitized, trackDuration, containerDuration, packetStats, dimensions,
                 metadata, tierProbes, selectedConfig>>
  /\ UNCHANGED exceptConfig

\* sanitizeVideo settles: a clip of safeWidth x safeHeight, or an error
Sanitize(o) ==
  /\ cpc = "sanitize"
  /\ IF o = "blob"
       THEN /\ sanitized' = SafeDimensions(dim)
            /\ Proceed("analyze")
       ELSE /\ Throw("Sanitization failed", samples, currentInputSample)
            /\ UNCHANGED sanitized
  /\ UNCHANGED <<outputDuration, exactFrameCount, frame, currentInputFrameIndex, iteratorDone,
                 plan, encoder>>
  /\ UNCHANGED <<dim, bitrate, inputDuration, trackDuration, containerDuration, packetStats,
                 dimensions, metadata, tierProbes, selectedConfig>>
  /\ UNCHANGED exceptConfig

\* how getVideoDimensions(videoBlob) settles
DimensionOutcomes == { Fulfilled(sanitized), Rejected(Dims(0, 0)) }

\* an analysis whose probes have no catch handler
Analyze_Unguarded(tracks, td, cd, ps, gd) ==
  /\ cpc = "analyze"
  /\ IF tracks /\ ~td.rejected /\ ~cd.rejected /\ ~ps.rejected /\ ~gd.rejected
       THEN /\ trackDuration' = td.value
            /\ containerDuration' = cd.value
            /\ packetStats' = ps.value
            /\ dimensions' = gd.value
            /\ metadata' = [duration |-> ResolvedDuration(td.value, cd.value, inputDuration),
                            bitrate |-> ResolvedBitrate(bitrate, ps.value),
                            frameRate |-> ResolvedFrameRate(ps.value)]
            /\ Proceed("count")
       ELSE /\ Throw(IF tracks THEN "probe rejected" ELSE "No video tracks found in input",
                     samples, currentInputSample)
            /\ UNCHANGED <<trackDuration, containerDuration, packetStats, dimensions, metadata>>
  /\ UNCHANGED <<outputDuration, exactFrameCount, frame, currentInputFrameIndex, iteratorDone,
                 plan, encoder>>
  /\ UNCHANGED <<dim, bitrate, inputDuration, sanitized, tierProbes, selectedConfig>>
  /\ UNCHANGED exceptConfig

\* the metadata input is opened; the four probes settle, each behind its own catch
Analyze(tracks, td, cd, ps, gd) ==
  /\ cpc = "analyze"
  /\ IF tracks
       THEN /\ trackDuration' = Catch(td, Null)
            /\ containerDuration' = Catch(cd, Null)
            /\ packetStats' = Catch(ps, NoStats)
            /\ dimensions' = Catch(gd, Dims(1920, 1080))
            /\ metadata' = [duration |-> ResolvedDuration(Catch(td, Null), Catch(cd, Null),
                                                          inputDuration),
                            bitrate |-> ResolvedBitrate(bitrate, Catch(ps, NoStats)),
                            frameRate |-> ResolvedFrameRate(Catch(ps, NoStats))]
            /\ Proceed("count")
       ELSE /\ Throw("No video tracks found in input", samples, currentInputSample)
            /\ UNCHANGED <<trackDuration, containerDuration, packetStats, dimensions, metadata>>
  /\ UNCHANGED <<outputDuration, exactFrameCount, frame, currentInputFrameIndex, iteratorDone,
                 plan, encoder>>
  /\ UNCHANGED <<dim, bitrate, inputDuration, sanitized, tierProbes, selectedConfig>>
  /\ UNCHANGED exceptConfig

\* the metadata input is disposed and a fresh encoding input is opened
Reopen(tracks) ==
  /\ cpc = "configure"
  /\ IF tracks
       THEN Proceed("negotiate")
       ELSE Throw("Failed to re-open video tracks for encoding", samples, currentInputSample)
  /\ UNCHANGED <<outputDuration, exactFrameCount, frame, currentInputFrameIndex, iteratorDone,
                 plan, encoder>>
  /\ UNCHANGED configVars
  /\ UNCHANGED exceptConfig

\* a loop without the break: every tier is probed and the last supported one is kept
Negotiate_NoBreak(supported) ==
  /\ cpc = "negotiate"
  /\ LET tiers == Tiers(dimensions.width, dimensions.height, metadata.bitrate)
         k     == Len(tierProbes) + 1
         tier  == tiers[k]
         kept  == IF supported
                    THEN SelectedConfig(tier, dimensions.width, dimensions.height,
                                        metadata.frameRate)
                    ELSE selectedConfig
     IN  /\ tierProbes' =
              Append(tierProbes, TierProbe(tier, dimensions.width, dimensions.height, supported))
         /\ selectedConfig' = kept
         /\ IF k < Len(tiers)
              THEN Proceed("negotiate")
              ELSE IF kept # NoConfig
                     THEN Proceed("starting")
                     ELSE Throw("Device encoder does not support the required H.264 profiles for this video.",
                                samples, currentInputSample)
  /\ UNCHANGED <<outputDuration, exactFrameCount, frame, currentInputFrameIndex, iteratorDone,
                 plan, encoder>>
  /\ UNCHANGED <<dim, bitrate, inputDuration, sanitized, trackDuration, containerDuration,
                 packetStats, dimensions, metadata>>
  /\ UNCHANGED exceptConfig

\* a loop that settles for the last tier when no tier is supported
Negotiate_LastResort(supported) ==
  /\ cpc = "negotiate"
  /\ LET tiers == Tiers(dimensions.width, dimensions.height, metadata.bitrate)
         k     == Len(tierProbes) + 1
         tier  == tiers[k]
     IN  /\ tierProbes' =
              Append(tierProbes, TierProbe(tier, dimensions.width, dimensions.height, supported))
         /\ IF supported \/ k = Len(tiers)
              THEN /\ selectedConfig' = SelectedConfig(tier, dimensions.width, dimensions.height,
                                                       metadata.frameRate)
                   /\ Proceed("starting")
              ELSE /\ UNCHANGED selectedConfig
                   /\ Proceed("negotiate")
  /\ UNCHANGED <<outputDuration, exactFrameCount, frame, currentInputFrameIndex, iteratorDone,
                 plan, encoder>>
  /\ UNCHANGED <<dim, bitrate, inputDuration, sanitized, trackDuration, containerDuration,
                 packetStats, dimensions, metadata>>
  /\ UNCHANGED exceptConfig

\* one turn of for (const tier of tiers): canEncodeVideo settles for the next tier
Negotiate(supported) ==
  /\ cpc = "negotiate"
  /\ LET tiers == Tiers(dimensions.width, dimensions.height, metadata.bitrate)
         k     == Len(tierProbes) + 1
         tier  == tiers[k]
     IN  /\ tierProbes' =
              Append(tierProbes, TierProbe(tier, dimensions.width, dimensions.height, supported))
         /\ IF supported
              THEN /\ selectedConfig' = SelectedConfig(tier, dimensions.width, dimensions.height,
                                                       metadata.frameRate)
                   /\ Proceed("starting")
              ELSE /\ UNCHANGED selectedConfig
                   /\ IF k < Len(tiers)
                        THEN Proceed("negotiate")
                        ELSE Throw("Device encoder does not support the required H.264 profiles for this video.",
                                   samples, currentInputSample)
  /\ UNCHANGED <<outputDuration, exactFrameCount, frame, currentInputFrameIndex, iteratorDone,
                 plan, encoder>>
  /\ UNCHANGED <<dim, bitrate, inputDuration, sanitized, trackDuration, containerDuration,
                 packetStats, dimensions, metadata>>
  /\ UNCHANGED exceptConfig

StartOutcomes == {"started", "start-failed"}

\* videoSource and output are created with selectedConfig; output.start() settles
Start(o) ==
  /\ cpc = "starting"
  /\ IF o = "started"
       THEN /\ encoder' = << Op("start") >>
            /\ Proceed("first")
       ELSE /\ Throw(o, samples, currentInputSample)
            /\ UNCHANGED encoder
  /\ UNCHANGED <<outputDuration, exactFrameCount, frame, currentInputFrameIndex, iteratorDone,
                 plan>>
  /\ UNCHANGED configVars
  /\ UNCHANGED exceptConfig

ConfigureNext ==
  \/ \E raw \in SourceDimensions, rate \in BitrateArguments : ApplySpeedCurve(raw, rate)
  \/ \E o \in SanitizeOutcomes : Sanitize(o)
  \/ \E tracks \in BOOLEAN, td \in DurationOutcomes, cd \in ContainerOutcomes,
        ps \in StatsOutcomes, gd \in DimensionOutcomes : Analyze(tracks, td, cd, ps, gd)
  \/ \E n \in 0..1 : CountReturn(n)
  \/ \E tracks \in BOOLEAN : Reopen(tracks)
  \/ \E supported \in BOOLEAN : Negotiate(supported)
  \/ \E o \in StartOutcomes : Start(o)

SpecConfigure == CurveInit /\ [][ConfigureNext]_allVars

\* ---------------------------------------------------------------- applySpeedCurve: passes
DisposeOutcomes == {"disposed", "throws"}

\* catch and finally of applySpeedCurve with the handle held in input: dispose() is tried
\* and a failure is logged
Abort(msg, handles, held, d) ==
  /\ Throw(msg, samples, currentInputSample)
  /\ inputs' = IF held # 0 THEN Dispose(handles, held) ELSE handles
  /\ warned' = IF held # 0 /\ d = "throws" THEN warned + 1 ELSE warned

\* sanitizeVideo: its own Input, drained by the copy loop, disposed in finally
SanitizePass(n, o, d) ==
  /\ cpc = "sanitize"
  /\ LET opened == Open(inputs, "sanitize")
         k      == Len(opened)
         read   == IF o = "blob" THEN Drain(Read(opened, k, n + 1), k) ELSE Read(opened, k, n)
     IN  /\ inputs' = Dispose(read, k)
         /\ IF d = "throws"
              THEN Throw("dispose failed", samples, currentInputSample)
              ELSE IF o = "blob"
                     THEN Proceed("analyze")
                     ELSE Throw("Sanitization failed", samples, currentInputSample)
  /\ UNCHANGED <<input, warned>>
  /\ UNCHANGED <<outputDuration, exactFrameCount, frame, currentInputFrameIndex, iteratorDone,
                 plan, encoder>>
  /\ UNCHANGED exceptPasses

\* the metadata input is opened and kept in input; its sink is never read
OpenMetadata(tracks, df) ==
  /\ cpc = "analyze"
  /\ LET opened == Open(inputs, "metadata")
     IN  IF tracks
           THEN /\ inputs' = opened
                /\ input' = Len(opened)
                /\ Proceed("count")
                /\ UNCHANGED warned
           ELSE /\ Abort("No video tracks found in input", opened, Len(opened), df)
                /\ input' = Len(opened)
  /\ UNCHANGED <<outputDuration, exactFrameCount, frame, currentInputFrameIndex, iteratorDone,
                 plan, encoder>>
  /\ UNCHANGED exceptPasses

CountPassOutcomes == {"counted", "no-tracks", "error"}

\* countDecodableFrames: its own Input, drained, disposed in finally
CountPass(n, o, d, df) ==
  /\ cpc = "count"
  /\ LET opened == Open(inputs, "count")
         k      == Len(opened)
         read   == IF o = "counted" THEN Drain(Read(opened, k, n + 1), k)
                   ELSE IF o = "error" THEN Read(opened, k, n)
                   ELSE opened
         closed == Dispose(read, k)
         count  == IF o = "counted" THEN n ELSE 0
     IN  IF d = "throws"
           THEN /\ Abort("dispose failed", closed, input, df)
                /\ UNCHANGED exactFrameCount
           ELSE /\ exactFrameCount' = count
                /\ IF count = 0
                     THEN Abort("Could not decode any frames from the input video", closed,
                                input, df)
                     ELSE /\ inputs' = closed
                          /\ Proceed("configure")
                          /\ UNCHANGED warned
  /\ UNCHANGED input
  /\ UNCHANGED <<outputDuration, frame, currentInputFrameIndex, iteratorDone, plan, encoder>>
  /\ UNCHANGED exceptPasses

\* a refresh that keeps reading through the metadata input
RefreshInput_Reuse(d, tracks, df) ==
  /\ cpc = "configure"
  /\ LET closed == Dispose(inputs, input)
         logged == IF d = "throws" THEN warned + 1 ELSE warned
     IN  IF tracks
           THEN /\ inputs' = closed
                /\ warned' = logged
                /\ Proceed("encode")
           ELSE /\ Throw("Failed to re-open video tracks for encoding", samples,
                         currentInputSample)
                /\ inputs' = Dispose(closed, input)
                /\ warned' = IF df = "throws" THEN logged + 1 ELSE logged
  /\ UNCHANGED input
  /\ UNCHANGED <<outputDuration, exactFrameCount, frame, currentInputFrameIndex, iteratorDone,
                 plan, encoder>>
  /\ UNCHANGED exceptPasses

\* refresh: the metadata input is disposed (a failure is logged) and a fresh encoding
\* input is opened and kept in input
RefreshInput(d, tracks, df) ==
  /\ cpc = "configure"
  /\ LET closed == Dispose(inputs, input)
         logged == IF d = "throws" THEN warned + 1 ELSE warned
         opened == Open(closed, "encode")
     IN  /\ input' = Len(opened)
         /\ IF tracks
              THEN /\ inputs' = opened
                   /\ warned' = logged
                   /\ Proceed("encode")
              ELSE /\ Throw("Failed to re-open video tracks for encoding", samples,
                            currentInputSample)
                   /\ inputs' = Dispose(opened, Len(opened))
                   /\ warned' = IF df = "throws" THEN logged + 1 ELSE logged
  /\ UNCHANGED <<outputDuration, exactFrameCount, frame, currentInputFrameIndex, iteratorDone,
                 plan, encoder>>
  /\ UNCHANGED exceptPasses

EncodePassOutcomes == {"blob", "drained", "error"}

\* negotiation, resample loop, padding, finalize: n samples are requested through input;
\* the iterator may report done; finally disposes input
EncodePass(n, o, df) ==
  /\ cpc = "encode"
  /\ LET read == IF o = "drained" THEN Drain(Read(inputs, input, n + 1), input)
                 ELSE Read(inputs, input, n + 1)
     IN  /\ inputs' = Dispose(read, input)
         /\ warned' = IF df = "throws" THEN warned + 1 ELSE warned
         /\ IF o = "error"
              THEN Throw("encode error", samples, currentInputSample)
              ELSE /\ status' = "complete"
                   /\ returned' = "blob"
                   /\ cpc' = "returned"
                   /\ UNCHANGED <<message, samples, currentInputSample, pending>>
  /\ UNCHANGED input
  /\ UNCHANGED <<outputDuration, exactFrameCount, frame, currentInputFrameIndex, iteratorDone,
                 plan, encoder>>
  /\ UNCHANGED exceptPasses

PassesNext ==
  \/ Call(Tenths(DEFAULT_OUTPUT_DURATION))
  \/ \E n \in 0..MaxFrames, o \in SanitizeOutcomes, d \in DisposeOutcomes : SanitizePass(n, o, d)
  \/ \E tracks \in BOOLEAN, df \in DisposeOutcomes : OpenMetadata(tracks, df)
  \/ \E n \in 0..MaxFrames, o \in CountPassOutcomes, d \in DisposeOutcomes,
        df \in DisposeOutcomes : CountPass(n, o, d, df)
  \/ \E d \in DisposeOutcomes, tracks \in BOOLEAN, df \in DisposeOutcomes :
        RefreshInput(d, tracks, df)
  \/ \E n \in 0..MaxFrames, o \in EncodePassOutcomes, df \in DisposeOutcomes :
        EncodePass(n, o, df)

SpecPasses == CurveInit /\ [][PassesNext]_allVars

\* ---------------------------------------------------------------- applySpeedCurve: progress reports
\* the call lengths followed: no frame, one frame, and enough frames for several reports
ReportedDurations == { Div(n, outputFrameRate) : n \in {0, 1, 11, MaxProgressFrames} }

\* catch: the error report resets the progress to 0
ReportError(msg, reports) ==
  /\ Throw(msg, samples, currentInputSample)
  /\ reported' = Append(reports, Update("error", "Error", Num(0), frame, emitted))

\* applySpeedCurve is called: the initial report, then sanitizeVideo reports its start
Report(d) ==
  /\ cpc = "idle"
  /\ outputDuration' = d
  /\ status' = "processing"
  /\ reported' = << Update("processing", "Initializing", Num(0), 0, 0),
                    Update("processing", "Sanitizing input video", Scale(Num(0), 3, 10), 0, 0) >>
  /\ cpc' = "sanitize"
  /\ UNCHANGED <<processed, emitted>>
  /\ UNCHANGED <<exactFrameCount, frame, currentInputFrameIndex, currentInputSample,
                 iteratorDone, plan, samples, pending, encoder, message, returned>>
  /\ UNCHANGED exceptProgress

CopyOutcomes == {"sample", "done", "throw"}

\* sanitizeVideo: one more frame is copied, or the copy ends
SanitizeFrame(o) ==
  /\ cpc = "sanitize"
  /\ o = "sample" => processed < MaxProgressFrames
  /\ IF o = "sample"
       THEN /\ processed' = processed + 1
            /\ reported' = IF (processed + 1) % 10 = 0
                             THEN Append(reported,
                                         Update("processing", "Sanitizing input video",
                                                SanitizeProgress(processed + 1), 0, 0))
                             ELSE reported
            /\ Proceed("sanitize")
       ELSE /\ UNCHANGED processed
            /\ IF o = "done"
                 THEN /\ reported' = Append(reported,
                                            Update("processing", "Starting speed curve application",
                                                   Num(30), 0, 0))
                      /\ Proceed("analyze")
                 ELSE ReportError("Sanitization failed", reported)
  /\ UNCHANGED emitted
  /\ UNCHANGED <<outputDuration, exactFrameCount, frame, currentInputFrameIndex, iteratorDone,
                 plan, encoder>>
  /\ UNCHANGED exceptProgress

\* the metadata analysis settles and countDecodableFrames reports its start
AnalyzeReport(o) ==
  /\ cpc = "analyze"
  /\ IF o = "tracks"
       THEN /\ reported' = Append(reported,
                                  Update("processing", "Analyzing structure", Num(35), 0, 0))
            /\ Proceed("count")
       ELSE ReportError("No video tracks found in input", reported)
  /\ UNCHANGED <<processed, emitted>>
  /\ UNCHANGED <<outputDuration, exactFrameCount, frame, currentInputFrameIndex, iteratorDone,
                 plan, encoder>>
  /\ UNCHANGED exceptProgress

\* pass 1 settles; after the refresh the encoder configuration is announced
CountReport(n) ==
  /\ cpc = "count"
  /\ exactFrameCount' = n
  /\ IF n = 0
       THEN ReportError("Could not decode any frames from the input video", reported)
       ELSE /\ reported' = Append(reported,
                                  Update("processing", "Configuring encoder", Num(40), 0, 0))
            /\ Proceed("configure")
  /\ UNCHANGED <<processed, emitted>>
  /\ UNCHANGED <<outputDuration, frame, currentInputFrameIndex, iteratorDone, plan, encoder>>
  /\ UNCHANGED exceptProgress

\* negotiation and output.start() settle
ConfigureReport(o) ==
  /\ cpc = "configure"
  /\ LET announced == Append(reported,
                             Update("processing", "Starting output encoding", Num(45), 0, 0))
     IN  IF o = "started"
           THEN /\ encoder' = << Op("start") >>
                /\ reported' = announced
                /\ Proceed("first")
           ELSE /\ ReportError(o, IF o = "start-failed" THEN announced ELSE reported)
                /\ UNCHANGED encoder
  /\ UNCHANGED <<processed, emitted>>
  /\ UNCHANGED <<outputDuration, exactFrameCount, frame, currentInputFrameIndex, iteratorDone,
                 plan>>
  /\ UNCHANGED exceptProgress

\* the first sampleIterator.next() settles
FirstReport(o) ==
  /\ cpc = "first"
  /\ IF o = "throw"
       THEN /\ ReportError("decode error", reported)
            /\ UNCHANGED iteratorDone
       ELSE /\ samples' = IF o = "sample" THEN << SourceSample(0) >> ELSE samples
            /\ currentInputSample' = IF o = "sample" THEN 1 ELSE 0
            /\ iteratorDone' = (o = "done")
            /\ cpc' = "loop"
            /\ UNCHANGED <<status, message, returned, pending, reported>>
  /\ UNCHANGED <<processed, emitted>>
  /\ UNCHANGED <<outputDuration, exactFrameCount, frame, currentInputFrameIndex, plan, encoder>>
  /\ UNCHANGED exceptProgress

ResampleOutcomes == {"emitted", "throw"}

\* one turn of the resample loop: the held frame, if any, is emitted; every tenth turn
\* reports
Resample(o) ==
  /\ cpc = "loop"
  /\ frame < totalOutputFrames(outputDuration)
  /\ IF o = "throw"
       THEN /\ ReportError("encode error", reported)
            /\ UNCHANGED <<frame, emitted>>
       ELSE /\ emitted' = IF currentInputSample # 0 THEN emitted + 1 ELSE emitted
            /\ reported' =
                 IF frame % 10 = 0
                   THEN Append(reported,
                               Update("processing", "Resampling frames",
                                      ResampleProgress(frame, totalOutputFrames(outputDuration)),
                                      frame,
                                      IF currentInputSample # 0 THEN emitted + 1 ELSE emitted))
                   ELSE reported
            /\ frame' = frame + 1
            /\ Proceed("loop")
  /\ UNCHANGED processed
  /\ UNCHANGED <<outputDuration, exactFrameCount, currentInputFrameIndex, iteratorDone, plan,
                 encoder>>
  /\ UNCHANGED exceptProgress

FinishOutcomes == {"blob", "throw", "no-buffer"}

\* after the loop: padding frame, the report of 95, videoSource.close(), output.finalize()
\* and the report of completion
Finish(o) ==
  /\ cpc = "loop"
  /\ frame = totalOutputFrames(outputDuration)
  /\ LET finalizing == Append(reported,
                              Update("processing", "Finalizing output", Num(95), frame, emitted))
         released   == Finally(samples, currentInputSample)
     IN  IF o = "blob"
           THEN /\ reported' = Append(finalizing,
                                      Update("complete", "Successfully created", Num(100), frame,
                                             emitted))
                /\ status' = "complete"
                /\ returned' = "blob"
                /\ samples' = released
                /\ currentInputSample' = 0
                /\ cpc' = "returned"
                /\ UNCHANGED <<message, pending>>
           ELSE /\ Throw(IF o = "throw" THEN "finalize error"
                         ELSE "Failed to generate output buffer", released, 0)
                /\ reported' = Append(finalizing, Update("error", "Error", Num(0), frame, emitted))
  /\ UNCHANGED <<processed, emitted>>
  /\ UNCHANGED <<outputDuration, exactFrameCount, frame, currentInputFrameIndex, iteratorDone,
                 plan, encoder>>
  /\ UNCHANGED exceptProgress

ProgressNext ==
  \/ \E d \in ReportedDurations : Report(d)
  \/ \E o \in CopyOutcomes : SanitizeFrame(o)
  \/ \E o \in AnalyzeOutcomes : AnalyzeReport(o)
  \/ \E n \in 0..1 : CountReport(n)
  \/ \E o \in ConfigureOutcomes : ConfigureReport(o)
  \/ \E o \in CopyOutcomes : FirstReport(o)
  \/ \E o \in ResampleOutcomes : Resample(o)
  \/ \E o \in FinishOutcomes : Finish(o)

SpecProgress == CurveInit /\ [][ProgressNext]_allVars

\* ---------------------------------------------------------------- applyFades
\* a merged buffer and its options, before applyFades is called
FadesInit ==
  /\ HookIdle
  /\ CurveIdle
  /\ ConfigIdle
  /\ PassIdle
  /\ ProgressIdle
  /\ AudioIdle
  /\ SanitizeIdle
  /\ VisualizationIdle
  /\ buffer \in Buffers
  /\ options \in FadeOptions
  /\ channelData = [k \in 1..buffer.length |-> Sample]
  /\ fadeInSamples = 0
  /\ fadeOutSamples = 0
  /\ faded = FALSE

\* applyFades(buffer, options)
applyFades ==
  /\ ~faded
  /\ faded' = TRUE
  /\ LET totalSamples == buffer.length
         fadeIn       == FadeSamples(options.fadeIn, buffer)
         fadeOut      == FadeSamples(options.fadeOut, buffer)
         scaledIn     == ScaledFade(fadeIn, fadeIn, fadeOut, totalSamples)
         scaledOut    == ScaledFade(fadeOut, fadeIn, fadeOut, totalSamples)
     IN  IF \/ ~options.some
            \/ (FadeLength(options.fadeIn).num = 0 /\ FadeLength(options.fadeOut).num = 0)
            \/ totalSamples = 0
           THEN UNCHANGED <<channelData, fadeInSamples, fadeOutSamples>>
           ELSE /\ fadeInSamples' = scaledIn
                /\ fadeOutSamples' = scaledOut
                /\ channelData' = RampOut(RampIn(channelData, scaledIn), scaledOut, totalSamples)
  /\ UNCHANGED <<buffer, options>>
  /\ UNCHANGED exceptFades

FadesNext == applyFades

SpecFades == FadesInit /\ [][FadesNext]_allVars

\* ---------------------------------------------------------------- prepareAudio, remuxWithNewAudio
AudioDone == {"returned", "thrown"}
AudioOutcomes == {"ok", "throws"}
\* Math.max(1, Math.floor(duration * sampleRate))
MergedLengths == 1..MaxTotalSamples
\* Math.floor(offsetSeconds * sampleRate)
OffsetSamples == (0 - MaxOffset)..MaxOffset

\* finally of remuxWithNewAudio: videoInput?.dispose(); audioInput?.dispose(); with no
\* guard around either call, so a dispose() that throws ends the block
RemuxFinally(handles, d) ==
  LET video == IF Len(handles) >= 1 THEN Dispose(handles, 1) ELSE handles
  IN  IF Len(handles) >= 2 /\ d = "disposed" THEN Dispose(video, 2) ELSE video

\* catch and finally of remuxWithNewAudio
RemuxThrow(handles, d) ==
  /\ apc' = "thrown"
  /\ audioInputs' = RemuxFinally(handles, d)

\* remuxWithNewAudio is called: the video Input is constructed
RemuxCall ==
  /\ apc = "idle"
  /\ operation' = "remux"
  /\ apc' = "video"
  /\ audioInputs' = Open(audioInputs, "video")
  /\ UNCHANGED <<decodedBuffers, mergedLength, writeOffset, samplesToSkip, bufferIndex,
                 bufferOffset>>
  /\ UNCHANGED fillTurns
  /\ UNCHANGED exceptAudio

\* the video tracks, the duration and the codec string are read; then the audio Input is
\* constructed
RemuxVideo(o, d) ==
  /\ apc = "video"
  /\ IF o = "ok"
       THEN /\ apc' = "decode"
            /\ audioInputs' = Open(audioInputs, "audio")
       ELSE RemuxThrow(audioInputs, d)
  /\ UNCHANGED <<operation, decodedBuffers, mergedLength, writeOffset, samplesToSkip,
                 bufferIndex, bufferOffset>>
  /\ UNCHANGED fillTurns
  /\ UNCHANGED exceptAudio

\* the audio tracks are read and decoded; the decoded buffers are copied once into the merged
\* buffer
RemuxDecode(o, buffers, total, d) ==
  /\ apc = "decode"
  /\ operation = "remux"
  /\ IF o = "ok" /\ Len(buffers) # 0
       THEN /\ apc' = "fill"
            /\ decodedBuffers' = buffers
            /\ mergedLength' = total
            /\ writeOffset' = CopyBuffers(buffers, 0, total)
            /\ UNCHANGED audioInputs
       ELSE /\ RemuxThrow(audioInputs, d)
            /\ UNCHANGED <<decodedBuffers, mergedLength, writeOffset>>
  /\ UNCHANGED <<operation, samplesToSkip, bufferIndex, bufferOffset>>
  /\ UNCHANGED fillTurns
  /\ UNCHANGED exceptAudio

\* one turn of while (writeOffset < totalSamples && decodedBuffers.length > 0): the decoded
\* buffers are written once more
FillPass ==
  /\ apc = "fill"
  /\ writeOffset < mergedLength /\ Len(decodedBuffers) > 0
  /\ writeOffset' = CopyBuffers(decodedBuffers, writeOffset, mergedLength)
  /\ fillTurns' = (fillTurns + 1) % 2
  /\ UNCHANGED <<operation, apc, audioInputs, decodedBuffers, mergedLength, samplesToSkip,
                 bufferIndex, bufferOffset>>
  /\ UNCHANGED exceptAudio

\* the loop-fill is left: remuxWithNewAudio goes on to the output, prepareAudio applies the
\* fades and returns the merged buffer
FillDone ==
  /\ apc = "fill"
  /\ ~(writeOffset < mergedLength /\ Len(decodedBuffers) > 0)
  /\ apc' = IF operation = "remux" THEN "output" ELSE "returned"
  /\ UNCHANGED <<operation, audioInputs, decodedBuffers, mergedLength, writeOffset,
                 samplesToSkip, bufferIndex, bufferOffset>>
  /\ UNCHANGED fillTurns
  /\ UNCHANGED exceptAudio

\* the output is started, the packets are copied, the audio is added, the output is finalized
RemuxOutput(o, d) ==
  /\ apc = "output"
  /\ audioInputs' = RemuxFinally(audioInputs, d)
  /\ apc' = IF o = "ok" /\ d = "disposed" THEN "returned" ELSE "thrown"
  /\ UNCHANGED <<operation, decodedBuffers, mergedLength, writeOffset, samplesToSkip,
                 bufferIndex, bufferOffset>>
  /\ UNCHANGED fillTurns
  /\ UNCHANGED exceptAudio

\* prepareAudio is called: the audio Input is constructed
PrepareCall ==
  /\ apc = "idle"
  /\ operation' = "prepare"
  /\ apc' = "decode"
  /\ audioInputs' = Open(audioInputs, "audio")
  /\ UNCHANGED <<decodedBuffers, mergedLength, writeOffset, samplesToSkip, bufferIndex,
                 bufferOffset>>
  /\ UNCHANGED fillTurns
  /\ UNCHANGED exceptAudio

\* the audio tracks are read and decoded, the offset is turned into a write offset or into
\* samples to skip; the catch block rethrows and nothing disposes the Input
PrepareDecode(o, buffers, total, offsetSamples) ==
  /\ apc = "decode"
  /\ operation = "prepare"
  /\ IF o = "ok" /\ Len(buffers) # 0
       THEN /\ apc' = "skip"
            /\ decodedBuffers' = buffers
            /\ mergedLength' = total
            /\ writeOffset' = IF offsetSamples > 0 THEN Min(offsetSamples, total) ELSE 0
            /\ samplesToSkip' = IF offsetSamples < 0 THEN 0 - offsetSamples ELSE 0
       ELSE /\ apc' = "thrown"
            /\ UNCHANGED <<decodedBuffers, mergedLength, writeOffset, samplesToSkip>>
  /\ UNCHANGED <<operation, audioInputs, bufferIndex, bufferOffset>>
  /\ UNCHANGED fillTurns
  /\ UNCHANGED exceptAudio

\* one turn of while (samplesToSkip > 0 && bufferIndex < decodedBuffers.length)
SkipStep ==
  /\ apc = "skip"
  /\ samplesToSkip > 0 /\ bufferIndex < Len(decodedBuffers)
  /\ LET availableInBuffer == decodedBuffers[bufferIndex + 1] - bufferOffset
     IN  IF samplesToSkip >= availableInBuffer
           THEN /\ samplesToSkip' = samplesToSkip - availableInBuffer
                /\ bufferIndex' = bufferIndex + 1
                /\ bufferOffset' = 0
           ELSE /\ bufferOffset' = samplesToSkip
                /\ samplesToSkip' = 0
                /\ UNCHANGED bufferIndex
  /\ UNCHANGED <<operation, apc, audioInputs, decodedBuffers, mergedLength, writeOffset>>
  /\ UNCHANGED fillTurns
  /\ UNCHANGED exceptAudio

\* the skip loop is left
SkipDone ==
  /\ apc = "skip"
  /\ ~(samplesToSkip > 0 /\ bufferIndex < Len(decodedBuffers))
  /\ apc' = "write"
  /\ UNCHANGED <<operation, audioInputs, decodedBuffers, mergedLength, writeOffset,
                 samplesToSkip, bufferIndex, bufferOffset>>
  /\ UNCHANGED fillTurns
  /\ UNCHANGED exceptAudio

\* one turn of while (writeOffset < totalSamples && bufferIndex < decodedBuffers.length)
WriteStep ==
  /\ apc = "write"
  /\ writeOffset < mergedLength /\ bufferIndex < Len(decodedBuffers)
  /\ LET length            == decodedBuffers[bufferIndex + 1]
         remainingSamples  == mergedLength - writeOffset
         availableInBuffer == length - bufferOffset
         writeLength       == Min(availableInBuffer, remainingSamples)
     IN  /\ writeOffset' = writeOffset + writeLength
         /\ IF bufferOffset + writeLength >= length
              THEN /\ bufferIndex' = bufferIndex + 1
                   /\ bufferOffset' = 0
              ELSE /\ bufferOffset' = bufferOffset + writeLength
                   /\ UNCHANGED bufferIndex
  /\ UNCHANGED <<operation, apc, audioInputs, decodedBuffers, mergedLength, samplesToSkip>>
  /\ UNCHANGED fillTurns
  /\ UNCHANGED exceptAudio

\* the write loop is left
WriteDone ==
  /\ apc = "write"
  /\ ~(writeOffset < mergedLength /\ bufferIndex < Len(decodedBuffers))
  /\ apc' = "fill"
  /\ UNCHANGED <<operation, audioInputs, decodedBuffers, mergedLength, writeOffset,
                 samplesToSkip, bufferIndex, bufferOffset>>
  /\ UNCHANGED fillTurns
  /\ UNCHANGED exceptAudio

AudioNext ==
  \/ RemuxCall
  \/ \E o \in AudioOutcomes, d \in DisposeOutcomes : RemuxVideo(o, d)
  \/ \E o \in AudioOutcomes, buffers \in BufferLists, total \in MergedLengths,
        d \in DisposeOutcomes : RemuxDecode(o, buffers, total, d)
  \/ \E o \in AudioOutcomes, d \in DisposeOutcomes : RemuxOutput(o, d)
  \/ PrepareCall
  \/ \E o \in AudioOutcomes, buffers \in BufferLists, total \in MergedLengths,
        offsetSamples \in OffsetSamples : PrepareDecode(o, buffers, total, offsetSamples)
  \/ SkipStep
  \/ SkipDone
  \/ WriteStep
  \/ WriteDone
  \/ FillPass
  \/ FillDone

SpecAudio == CurveInit /\ [][AudioNext]_allVars

\* a call that was made runs on: a synchronous loop takes its next turn, an awaited promise
\* settles
SpecAudioFair == SpecAudio /\ WF_allVars(AudioNext)

\* ---------------------------------------------------------------- sanitizeVideo: copy loop
\* the input is opened, the encoder is configured and the output is started
SanitizeCall(o) ==
  /\ spc = "idle"
  /\ spc' = IF o = "ok" THEN "next" ELSE "thrown"
  /\ UNCHANGED fetched
  /\ UNCHANGED exceptSanitize

SampleOutcomes == {"sample", "done", "throws"}

\* for await (const sample of sink.samples(0, Infinity)): the next sample, or the end of the
\* loop followed by videoSource.close(), output.finalize() and the return of the blob
NextSample(o) ==
  /\ spc = "next"
  /\ o = "sample" => Len(fetched) < MaxFrames
  /\ spc' = CASE o = "sample" -> "decode"
              [] o = "done"   -> "returned"
              [] OTHER        -> "thrown"
  /\ fetched' = IF o = "sample" THEN Append(fetched, Fetched) ELSE fetched
  /\ UNCHANGED exceptSanitize

DecodeOutcomes == {"bitmap", "no bitmap", "no frame"}

\* the forced decode: sample.toVideoFrame() and createImageBitmap may fail, which is logged
\* and ignored; the finally block closes whatever was made
ForceDecode(o) ==
  /\ spc = "decode"
  /\ spc' = "add"
  /\ fetched' = [fetched EXCEPT ![Len(fetched)].videoFrame =
                                   IF o = "no frame" THEN "none" ELSE "closed",
                                ![Len(fetched)].bitmap =
                                   IF o = "bitmap" THEN "closed" ELSE "none"]
  /\ UNCHANGED exceptSanitize

CloneOutcomes == {"added", "add throws", "clone throws"}

\* outSample = sample.clone(); await videoSource.add(outSample); outSample.close();
\* sample.close(): the two close() calls follow the add with nothing around them
CopySample(o) ==
  /\ spc = "add"
  /\ spc' = IF o = "added" THEN "next" ELSE "thrown"
  /\ fetched' = [fetched EXCEPT ![Len(fetched)].clone =
                                   CASE o = "added"      -> "closed"
                                     [] o = "add throws" -> "open"
                                     [] OTHER            -> "none",
                                ![Len(fetched)].open = (o # "added")]
  /\ UNCHANGED exceptSanitize

SanitizeNext ==
  \/ \E o \in AudioOutcomes : SanitizeCall(o)
  \/ \E o \in SampleOutcomes : NextSample(o)
  \/ \E o \in DecodeOutcomes : ForceDecode(o)
  \/ \E o \in CloneOutcomes : CopySample(o)

SpecSanitize == CurveInit /\ [][SanitizeNext]_allVars

\* ---------------------------------------------------------------- useAudioVisualization
\* the cleanup of the previous effect: isCancelled = true in the closure of its run
Cancelled(rs) == [k \in DOMAIN rs |-> [rs[k] EXCEPT !.isCancelled = TRUE]]

\* the audioFile prop changes: the previous effect is cleaned up and the effect runs again,
\* up to the first await of processAudio
SetAudioFile(f) ==
  /\ f # audioFile
  /\ f # 0 /\ f \notin waveformCache => Len(runs) < MaxRuns
  /\ audioFile' = f
  /\ IF f = 0
       THEN /\ waveformData' = 0
            /\ waveformError' = 0
            /\ isLoading' = FALSE
            /\ runs' = Cancelled(runs)
       ELSE IF f \in waveformCache
         THEN /\ waveformData' = f
              /\ isLoading' = FALSE
              /\ waveformError' = 0
              /\ runs' = Cancelled(runs)
         ELSE /\ isLoading' = TRUE
              /\ waveformError' = 0
              /\ runs' = Append(Cancelled(runs),
                                [file |-> f, isCancelled |-> FALSE, stage |-> "reading"])
              /\ UNCHANGED waveformData
  /\ UNCHANGED waveformCache
  /\ UNCHANGED exceptVisualization

\* catch and finally of processAudio: setError(message) whatever isCancelled is, then
\* setIsLoading(false) unless the run was cancelled
ProcessingFailed(k) ==
  /\ waveformError' = runs[k].file
  /\ isLoading' = IF runs[k].isCancelled THEN isLoading ELSE FALSE
  /\ runs' = [runs EXCEPT ![k].stage = "done"]
  /\ UNCHANGED <<waveformData, waveformCache>>

\* await audioFile.arrayBuffer() settles
ReadReturn(k, o) ==
  /\ k \in DOMAIN runs
  /\ runs[k].stage = "reading"
  /\ IF o = "ok"
       THEN /\ runs' = [runs EXCEPT ![k].stage = "decoding"]
            /\ UNCHANGED <<waveformData, isLoading, waveformError, waveformCache>>
       ELSE ProcessingFailed(k)
  /\ UNCHANGED audioFile
  /\ UNCHANGED exceptVisualization

\* await decodeAudioBuffer(...) settles: the waveform is cached, and set unless the run was
\* cancelled
DecodeReturn(k, o) ==
  /\ k \in DOMAIN runs
  /\ runs[k].stage = "decoding"
  /\ IF o = "ok"
       THEN /\ waveformCache' = waveformCache \cup {runs[k].file}
            /\ waveformData' = IF runs[k].isCancelled THEN waveformData ELSE runs[k].file
            /\ isLoading' = IF runs[k].isCancelled THEN isLoading ELSE FALSE
            /\ runs' = [runs EXCEPT ![k].stage = "done"]
            /\ UNCHANGED waveformError
       ELSE ProcessingFailed(k)
  /\ UNCHANGED audioFile
  /\ UNCHANGED exceptVisualization

VisualizationNext ==
  \/ \E f \in 0..MaxFiles : SetAudioFile(f)
  \/ \E k \in 1..MaxRuns, o \in AudioOutcomes : ReadReturn(k, o)
  \/ \E k \in 1..MaxRuns, o \in AudioOutcomes : DecodeReturn(k, o)

SpecVisualization == CurveInit /\ [][VisualizationNext]_allVars

\* ---------------------------------------------------------------- properties
Range(f) == { f[k] : k \in DOMAIN f }

Stages == { events[k].stage : k \in DOMAIN events }

AudioReason == context.reason \in {"audio-file", "audio-fade"}

\* ids of the loaded segments
LoadedIds == Ids(Loaded(transitionVideos))

\* the call got past input validation
Validated == pc # "idle" /\ Len(Loaded(transitionVideos)) > 0

\* the cache has at least as many entries as loaded segments and one for each of them
CacheCovers ==
  /\ context.cachedBlobs.some
  /\ Cardinality(DOMAIN context.cachedBlobs.blobs) >= Cardinality(LoadedIds)
  /\ LoadedIds \subseteq DOMAIN context.cachedBlobs.blobs

\* the remux-only path returned the result
RemuxSucceeded == result.some /\ result.finalBlob.via = "remux"

\* the remux-only path was tried and failed
RemuxFailed == remuxTried /\ pc # "remux" /\ ~RemuxSucceeded

\* C1: a validated call whose remux has not succeeded is on the medium path exactly
\* when the reason is an audio change and the cache covers every loaded segment, and
\* on the full path otherwise; the medium path stitches the cached clips of the loaded
\* segments and never calls applySpeedCurve.
C1_MediumExactlyWhenAudioAndCovered ==
  (Validated /\ pc # "remux" /\ ~RemuxSucceeded) =>
    /\ path \in {"medium", "full"}
    /\ path = "medium" <=> (AudioReason /\ CacheCovers)
    /\ path = "medium" =>
         /\ "applySpeedCurve" \notin Range(ops)
         /\ speedCurvedBlobs =
              [k \in 1..Len(Loaded(transitionVideos)) |->
                 context.cachedBlobs.blobs[Loaded(transitionVideos)[k].id]]

C1_Witness ==
  /\ pc = "done" /\ path = "medium" /\ result.some
  /\ Len(Loaded(transitionVideos)) >= 2

\* C2 as stated: for a validated call the remux-only path is attempted exactly when
\* the reason is 'audio-fade' and the context holds a previous final video and a cache.
C2_RemuxWheneverFadeAndPrevAndCache ==
  Validated =>
    (remuxTried <=> (context.reason = "audio-fade" /\ context.previousFinalVideo
                       /\ context.cachedBlobs.some))

\* C2 amended: for a validated call the remux-only path is attempted, with
\* remuxWithNewAudio as the first operation invoked, exactly when the reason is
\* 'audio-fade' and the context holds a previous final video, an audio blob, audio
\* settings and a cache; it is never attempted for another reason.
C2_RemuxExactlyWhenFadeAndAllInputs ==
  Validated =>
    /\ remuxTried <=> (context.reason = "audio-fade" /\ context.previousFinalVideo
                         /\ context.audioBlob /\ context.audioSettings
                         /\ context.cachedBlobs.some)
    /\ remuxTried => (Len(ops) >= 1 /\ ops[1] = "remuxWithNewAudio")
    /\ ~remuxTried => "remuxWithNewAudio" \notin Range(ops)

C2_Witness == pc = "remux" /\ remuxTried /\ ops = << "remuxWithNewAudio" >>

\* C3: a failed remux is never the call's error: no 'error' event follows a 'remuxing'
\* event directly; the call goes on below the fast path, on the medium path when the
\* cache covers every loaded segment, and then ends with a non-null result and stage
\* 'complete' unless stitchVideos fails.
C3_RemuxFailureFallsBack ==
  /\ \A k \in DOMAIN events :
       (events[k].stage = "remuxing" /\ k < Len(events)) => events[k + 1].stage # "error"
  /\ RemuxFailed =>
       /\ path \in {"medium", "full"}
       /\ CacheCovers => path = "medium"
       /\ (CacheCovers /\ pc = "done" /\ error.kind \notin {"stitch", "stitch-threw"}) =>
            /\ result.some
            /\ events[Len(events)].stage = "complete"

C3_Witness ==
  /\ RemuxFailed /\ CacheCovers /\ pc = "done" /\ result.some
  /\ result.finalBlob.via = "stitch"

\* the medium guard passed on the size but a loaded segment has no cached clip
CacheMissAfterSizeCheck ==
  /\ path = "full" /\ AudioReason /\ context.cachedBlobs.some
  /\ Cardinality(DOMAIN context.cachedBlobs.blobs) >= Cardinality(LoadedIds)
  /\ ~(LoadedIds \subseteq DOMAIN context.cachedBlobs.blobs)

\* C4: cached clips are reused (stitched by the medium path, or kept by a successful
\* remux) only while the cache's configHash equals the hash of the current segments.
C4_ReuseOnlyWhileHashMatches ==
  (pc # "idle" /\ (path = "medium" \/ RemuxSucceeded)) =>
    context.cachedBlobs.configHash = computeConfigHash(transitionVideos)

\* the number of applySpeedCurve invocations of this call
ApplyCalls == Cardinality({ k \in DOMAIN ops : ops[k] = "applySpeedCurve" })

\* the context carries the cache a full run built from exactly the current segments
SameSegmentsAsCache == context.cachedBlobs.some /\ storedFor = transitionVideos

\* a full run on the segments the stored cache was built from reproduces its hash
SameHashOnRerun ==
  (pc = "done" /\ path = "full" /\ result.some /\ stored.some /\ storedFor = transitionVideos) =>
    result.speedCurvedCache.configHash = stored.configHash

\* C5 as stated: a second full run on identical segments returns an equal configHash,
\* and a call given the returned cache, the same segments and an audio-only reason is
\* on the medium path and never calls applySpeedCurve.
C5_RerunThenMedium ==
  /\ SameHashOnRerun
  /\ (Validated /\ AudioReason /\ SameSegmentsAsCache) =>
       (path = "medium" /\ ApplyCalls = 0)

\* C5 amended: a second full run on identical segments returns an equal configHash,
\* and a call given the returned cache, the same segments and an audio-only reason
\* never calls applySpeedCurve: it is on the medium path, unless it attempted the
\* remux-only path first, and then it takes the medium path once the remux has failed.
C5_RerunThenMediumOrRemux ==
  /\ SameHashOnRerun
  /\ (Validated /\ AudioReason /\ SameSegmentsAsCache) =>
       /\ ApplyCalls = 0
       /\ ~remuxTried => path = "medium"
       /\ remuxTried => (IF RemuxFailed THEN path = "medium" ELSE path = "fast")

C5_Witness ==
  /\ Validated /\ AudioReason /\ SameSegmentsAsCache
  /\ pc = "done" /\ path = "medium" /\ result.some
  /\ Len(Loaded(transitionVideos)) >= 2

\* C6: with reason 'segment-change' a validated call is on the full path whatever the
\* context's cache; once the loop is through, applySpeedCurve has been called once per
\* loaded segment, and a returned cache has exactly the loaded ids as keys, each
\* mapped to the clip this call produced for that segment.
C6_SegmentChangeRebuildsCache ==
  (Validated /\ context.reason = "segment-change") =>
    LET l == Loaded(transitionVideos) IN
    /\ path = "full" /\ ~remuxTried
    /\ (pc \in {"audio", "stitch"} \/ (pc = "done" /\ result.some)) =>
         /\ ApplyCalls = Len(l)
         /\ started = [k \in 1..Len(l) |-> k]
    /\ (pc = "done" /\ result.some) =>
         /\ result.speedCurvedCache.some
         /\ DOMAIN result.speedCurvedCache.blobs = LoadedIds
         /\ \A k \in 1..Len(l) :
              /\ result.speedCurvedCache.blobs[l[k].id] = speedCurvedBlobs[k]
              /\ speedCurvedBlobs[k].seg = l[k].id
              /\ speedCurvedBlobs[k].made = "this-call"

C6_Witness ==
  /\ pc = "done" /\ result.some /\ context.reason = "segment-change"
  /\ context.cachedBlobs.some
  /\ DOMAIN context.cachedBlobs.blobs # LoadedIds
  /\ Len(Loaded(transitionVideos)) >= 2

\* C7: when applySpeedCurve fails for segment k the call ends in stage 'error' with
\* a message that names k, returns null with no cache, and has started the pipelines
\* of segments 1..k only.
C7_SegmentFailureAborts ==
  (pc = "done" /\ error.kind = "apply") =>
    /\ events[Len(events)].stage = "error"
    /\ error.video = i + 1
    /\ started = [k \in 1..(i + 1) |-> k]
    /\ ApplyCalls = i + 1
    /\ result = NoResult

C7_Witness ==
  /\ pc = "done" /\ error.kind = "apply" /\ error.video = 2
  /\ Len(Loaded(transitionVideos)) = 3
  /\ Len(speedCurvedBlobs) = 1

\* the terminal progress events of this call
TerminalEvents == { k \in DOMAIN events : events[k].stage \in Terminal }

\* C8: a finished call has reported exactly one terminal event and it is the last one:
\* 'complete' with progress 100 exactly when a result is returned, 'error' with a
\* message exactly when null is returned, and then neither blob nor cache is returned;
\* a running call has reported no terminal event.
C8_OneTerminalEvent ==
  /\ pc # "done" => TerminalEvents = {}
  /\ pc = "done" =>
       /\ TerminalEvents = { Len(events) }
       /\ result.some <=> events[Len(events)].stage = "complete"
       /\ events[Len(events)].stage = "complete" =>
            (events[Len(events)].progress = 100 /\ error = NoError)
       /\ events[Len(events)].stage = "error" =>
            (error.kind # "none" /\ result = NoResult)

C8_Witness ==
  /\ pc = "done" /\ path = "full" /\ error.kind = "stitch"
  /\ Len(speedCurvedBlobs) >= 2 /\ DOMAIN newCacheBlobs # {}

\* the order of the stage values as the FinalizeProgress type lists them
StageRank(stage) ==
  CASE stage = "applying-curves" -> 1
    [] stage = "mixing-audio" -> 2
    [] stage = "stitching" -> 3
    [] stage = "remuxing" -> 4
    [] OTHER -> 5

\* C9 as stated: no stage is reported after a stage that comes later in the order
\* applying-curves, mixing-audio, stitching, remuxing, complete|error.
C9_StagesInDeclaredOrder ==
  \A j, k \in DOMAIN events :
    j < k => StageRank(events[j].stage) <= StageRank(events[k].stage)

\* the order in which the paths report: the remux-only path comes first
PathRank(stage) ==
  CASE stage = "remuxing" -> 0
    [] stage = "applying-curves" -> 1
    [] stage = "mixing-audio" -> 2
    [] stage = "stitching" -> 3
    [] OTHER -> 5

\* the announcement that opens the medium path
OpeningStitch == Event("stitching", 0)

\* C9 amended: the stages are reported in the order remuxing, applying-curves,
\* mixing-audio, stitching, complete|error, except for the 'stitching' event with
\* progress 0 that opens the medium path: it comes after the remuxing events and
\* before every mixing-audio and applying-curves event.
C9_StagesInPathOrder ==
  \A j, k \in DOMAIN events :
    j < k =>
      IF events[j] = OpeningStitch
        THEN events[k].stage # "remuxing"
        ELSE PathRank(events[j].stage) <= PathRank(events[k].stage)

C9_Witness ==
  /\ pc = "done" /\ result.some /\ remuxTried /\ path = "full"
  /\ OpeningStitch \in Range(events)
  /\ "mixing-audio" \in Stages

\* C10: at most one applySpeedCurve pipeline is in flight; the pipelines are started
\* for videos 1, 2, ... in timeline order, each one only after the clips of all
\* earlier ones have been collected.
C10_OnePipelineAtATime ==
  /\ Cardinality(inFlight) <= 1
  /\ started = [k \in 1..Len(started) |-> k]
  /\ inFlight # {} => (pc = "apply" /\ inFlight = { Len(started) })
  /\ pc = "apply" => Len(speedCurvedBlobs) = Len(started) - 1
  /\ path = "full" =>
       \A k \in DOMAIN speedCurvedBlobs :
         speedCurvedBlobs[k].seg = Loaded(transitionVideos)[k].id

C10_Witness ==
  /\ pc = "apply" /\ inFlight = {3} /\ started = <<1, 2, 3>>
  /\ Len(speedCurvedBlobs) = 2

\* ---------------------------------------------------------------- applySpeedCurve: properties
\* x = y as numbers
Eq(x, y) == ~IsNaN(x) /\ ~IsNaN(y) /\ x.num * y.den = y.num * x.den

TotalOutputFrames == totalOutputFrames(outputDuration)

\* the frames handed to videoSource.add by the resample loop, in order
RealFrames == SelectSeq(encoder, LAMBDA e : e.op = "add" /\ e.slot = "real")

PaddingFrames == SelectSeq(encoder, LAMBDA e : e.op = "add" /\ e.slot = "padding")

\* the places of an operation in the encoder's log
Places(op) == { k \in DOMAIN encoder : encoder[k].op = op }

\* C11: the sequential cursor only moves forward, by exactly one per sample fetched in the
\* loop, so that it always names the held frame; the source frame of output frame i+1 is
\* never earlier than that of output frame i, and a target below the cursor repeats the
\* frame reached last
C11_CursorOnlyForward ==
  [][ /\ currentInputFrameIndex' >= currentInputFrameIndex
      /\ cpc = "advance" =>
           currentInputFrameIndex' - currentInputFrameIndex = Yielded(samples') - Yielded(samples)
      /\ currentInputSample' # 0 => samples'[currentInputSample'].frame = currentInputFrameIndex'
      /\ LET real == RealFrames'
         IN \A k \in DOMAIN real :
              /\ k > 1 => real[k].sample.frame >= real[k - 1].sample.frame
              /\ (k > 1 /\ Lt(plan'[k].targetInputIndex, Num(real[k - 1].sample.frame)))
                   => real[k].sample.frame = real[k - 1].sample.frame
              /\ (k = 1 /\ Lt(plan'[k].targetInputIndex, Num(0))) => real[k].sample.frame = 0
    ]_allVars

C11_Witness ==
  /\ Len(RealFrames) >= 3
  /\ currentInputFrameIndex >= 1
  /\ Lt(plan[3].targetInputIndex, plan[2].targetInputIndex)
  /\ RealFrames[2].sample.frame >= 1
  /\ RealFrames[3].sample.frame = RealFrames[2].sample.frame

\* C12: for every output frame and every easing value, also one below 0 or above 1, the
\* target index is round(ease * (F - 1)) clamped into [0, F - 1]
C12_TargetClampedIntoRange ==
  \A k \in DOMAIN plan :
    (~IsNaN(plan[k].progressOut) /\ ~IsNaN(plan[k].progressIn)) =>
      /\ ~Lt(plan[k].targetInputIndex, Num(0))
      /\ ~Lt(Num(exactFrameCount - 1), plan[k].targetInputIndex)

\* the easing seen so far is non-decreasing with ease(0) = 0 and ease(1) = 1
MonotonicEasing ==
  \A k \in DOMAIN plan :
    /\ ~IsNaN(plan[k].progressIn)
    /\ Eq(plan[k].progressOut, Num(0)) => Eq(plan[k].progressIn, Num(0))
    /\ Eq(plan[k].progressOut, Num(1)) => Eq(plan[k].progressIn, Num(1))
    /\ \A j \in 1..(k - 1) : ~Lt(plan[k].progressIn, plan[j].progressIn)

\* C13: under a non-decreasing easing with ease(0) = 0, ease(1) = 1 and at least two output
\* frames the target indices are non-decreasing, start at 0 and end at F - 1, and the last
\* real output frame shows source frame F - 1 when pass 2 yields every counted frame
C13_MonotonicEasingEndsOnLastFrame ==
  (TotalOutputFrames >= 2 /\ MonotonicEasing) =>
    /\ \A k \in DOMAIN plan :
         /\ k > 1 => ~Lt(plan[k].targetInputIndex, plan[k - 1].targetInputIndex)
         /\ k = 1 => Eq(plan[k].targetInputIndex, Num(0))
         /\ k = TotalOutputFrames => Eq(plan[k].targetInputIndex, Num(exactFrameCount - 1))
    /\ (Len(RealFrames) = TotalOutputFrames /\ ~iteratorDone) =>
         RealFrames[TotalOutputFrames].sample.frame = exactFrameCount - 1

C13_Witness ==
  /\ TotalOutputFrames = 3
  /\ exactFrameCount = 3
  /\ MonotonicEasing
  /\ Len(RealFrames) = 3
  /\ ~iteratorDone
  /\ RealFrames[2].sample.frame = 1
  /\ RealFrames[3].sample.frame = 2

\* C14: with a single output frame the output progress is 0 (the division is guarded) and
\* the target index is round(ease(0) * (F - 1))
C14_SingleFrameUsesProgressZero ==
  (TotalOutputFrames = 1 /\ Len(plan) >= 1) =>
    /\ Eq(plan[1].progressOut, Num(0))
    /\ ~IsNaN(plan[1].targetInputIndex)

\* C15: once real output frames were emitted and the loop is over, the encoder has received
\* exactly one padding frame, right after the last real frame: a copy of the held source
\* frame stamped totalOutputFrames * frameDuration; the track is closed after it and the
\* container is finalized only after the track was closed
C15_OnePaddingFrameThenCloseThenFinalize ==
  /\ Len(PaddingFrames) <= 1
  /\ \A c \in Places("close") : \A a \in Places("add") : a < c
  /\ \A f \in Places("finalize") : \E c \in Places("close") : c < f
  /\ (Len(RealFrames) >= 1 /\ cpc \in {"padding", "closing", "finalizing"}) =>
       /\ Len(PaddingFrames) = 1
       /\ encoder[Len(RealFrames) + 2] = PaddingFrames[1]
       /\ Eq(PaddingFrames[1].sample.timestamp, Div(TotalOutputFrames, outputFrameRate))
       /\ Eq(PaddingFrames[1].sample.duration, Div(1, outputFrameRate))
       /\ PaddingFrames[1].sample.frame = RealFrames[Len(RealFrames)].sample.frame
       /\ PaddingFrames[1].sample.frame = currentInputFrameIndex

C15_Witness ==
  /\ cpc = "finalizing"
  /\ Len(RealFrames) = 2
  /\ Len(PaddingFrames) = 1
  /\ PaddingFrames[1].sample.frame = 1
  /\ encoder[Len(encoder)].op = "finalize"

\* C16: the k-th real output frame carries timestamp (k - 1) / outputFrameRate, a function
\* of its index alone, and duration 1 / outputFrameRate; the timestamps strictly increase
C16_TimestampsFromIndex ==
  \A k \in DOMAIN RealFrames :
    /\ Eq(RealFrames[k].sample.timestamp, Div(k - 1, outputFrameRate))
    /\ Eq(RealFrames[k].sample.duration, Div(1, outputFrameRate))
    /\ k > 1 => Lt(RealFrames[k - 1].sample.timestamp, RealFrames[k].sample.timestamp)

C16_Witness ==
  /\ Len(RealFrames) = 3
  /\ RealFrames[1].sample.frame = 0
  /\ RealFrames[2].sample.frame = 2
  /\ RealFrames[3].sample.frame = 2

\* C17: a segment targeted to 1.5 s is resampled into 90 output frames (60 fps), so three
\* such segments give a final clip of about 270 frames
C17_DefaultSegmentsGive270Frames ==
  (Len(speedCurvedBlobs) = 3
     /\ \A k \in DOMAIN speedCurvedBlobs : speedCurvedBlobs[k].duration = DEFAULT_OUTPUT_DURATION) =>
    /\ \A k \in DOMAIN speedCurvedBlobs : speedCurvedBlobs[k].frames = 90
    /\ speedCurvedBlobs[1].frames + speedCurvedBlobs[2].frames + speedCurvedBlobs[3].frames = 270

\* C18: when the call has returned, every sample taken from the pass-2 iterator and every
\* clone is closed; a clone is open only while videoSource.add is pending on it
C18_SamplesClosedOnEveryExit ==
  /\ cpc = "returned" => \A k \in DOMAIN samples : samples[k].closes >= 1
  /\ \A k \in DOMAIN samples :
       (samples[k].kind = "clone" /\ k # pending) => samples[k].closes >= 1

C18_Witness ==
  /\ cpc = "returned"
  /\ message = "encode error"
  /\ Len(RealFrames) = 2
  /\ Yielded(samples) = 2

\* C19: a decode error on one source frame during the resample does not abort the segment:
\* applySpeedCurve still returns a clip
C19_DecodeErrorSkipsSlot ==
  (cpc = "returned" /\ message = "decode error" /\ Len(RealFrames) >= 1) => returned = "blob"

\* C20: zero decodable frames fail the segment (status 'error', null returned) before the
\* encoder and the output of the curve phase exist and before any frame is handed over
C20_ZeroFramesFailBeforeEncoder ==
  (exactFrameCount = 0 /\ cpc \notin {"idle", "sanitize", "analyze", "count"}) =>
    /\ cpc = "returned"
    /\ status = "error"
    /\ returned = "null"
    /\ encoder = <<>>
    /\ samples = <<>>
    /\ plan = <<>>

C20_Witness ==
  /\ cpc = "returned"
  /\ exactFrameCount = 0
  /\ status = "error"
  /\ message = "Could not decode any frames from the input video"

\* ---------------------------------------------------------------- tier negotiation, metadata
\* the tiers the negotiator walks through for the analysed clip
CurrentTiers == Tiers(dimensions.width, dimensions.height, metadata.bitrate)
\* the metadata analysis has produced its values
Analyzed == metadata # NoMetadata
\* the bitrate the analysis starts from: the argument, or DEFAULT_BITRATE when it is not finite
GivenBitrate == IF IsFinite(bitrate) THEN bitrate ELSE Num(DEFAULT_BITRATE)

\* C21: the tiers are probed in the order Original, 1080p, 720p; only the last probe made can
\* have reported supported, so no tier after the selected one is probed and no earlier tier
\* was supported; the selected width, height, bitrate and codec are those of that one tier
C21_FirstSupportedTierWins ==
  /\ Len(tierProbes) <= 3
  /\ \A k \in DOMAIN tierProbes :
       /\ tierProbes[k].label = << "Original", "1080p", "720p" >>[k]
       /\ k < Len(tierProbes) => ~tierProbes[k].supported
  /\ selectedConfig = NoConfig => \A k \in DOMAIN tierProbes : ~tierProbes[k].supported
  /\ selectedConfig # NoConfig =>
       /\ tierProbes # <<>>
       /\ tierProbes[Len(tierProbes)].supported
       /\ LET tier == CurrentTiers[Len(tierProbes)]
          IN  /\ selectedConfig.label = tier.label
              /\ selectedConfig.width = tier.width
              /\ selectedConfig.height = tier.height
              /\ selectedConfig.bitrate = tier.bitrate
              /\ selectedConfig.codec = tier.codec

\* the 720p tier is selected after two refusals, for a clip the tier has to scale down
C21_Witness ==
  /\ selectedConfig.label = "720p"
  /\ Len(tierProbes) = 3
  /\ dimensions = Dims(1920, 1080)
  /\ selectedConfig.bitrate = 5000000

\* C22: when all three probes report unsupported the call has failed with the
\* 'Device encoder does not support the required H.264 profiles' error and returned null,
\* no tier is selected and the encoder of the speed curve was never opened
C22_AllTiersRejectedIsFatal ==
  (Len(tierProbes) = 3 /\ \A k \in DOMAIN tierProbes : ~tierProbes[k].supported) =>
     /\ cpc = "returned"
     /\ status = "error"
     /\ returned = "null"
     /\ message = "Device encoder does not support the required H.264 profiles for this video."
     /\ selectedConfig = NoConfig
     /\ encoder = <<>>

C22_Witness ==
  /\ Len(tierProbes) = 3
  /\ \A k \in DOMAIN tierProbes : ~tierProbes[k].supported
  /\ returned = "null"

\* C23: a selected configuration has an even width and an even height; a 3840 x 2160 clip
\* for which only the 720p tier is supported is encoded at 1280 x 720
C23_SelectedDimensionsEven ==
  selectedConfig # NoConfig =>
     /\ selectedConfig.width % 2 = 0
     /\ selectedConfig.height % 2 = 0
     /\ selectedConfig.width > 0
     /\ selectedConfig.height > 0
     /\ (dim = Dims(3840, 2160) /\ selectedConfig.label = "720p") =>
          (selectedConfig.width = 1280 /\ selectedConfig.height = 720)

\* a clip of odd width and odd height gets a configuration
C23_Witness ==
  /\ dim.width % 2 = 1
  /\ dim.height % 2 = 1
  /\ selectedConfig # NoConfig

\* C24 as stated: with a finite measured bitrate the resolved bitrate is at least the
\* measured bitrate
C24_NeverBelowMeasured ==
  (Analyzed /\ IsFinite(packetStats.averageBitrate)) =>
     ~Lt(Num(metadata.bitrate), packetStats.averageBitrate)

\* C24: with a finite measured bitrate the resolved bitrate is at least the measured bitrate
\* rounded down and capped at 8 Mbps, whatever the bitrate argument or the default is
C24_NeverBelowMeasuredUpToCap ==
  (Analyzed /\ IsFinite(packetStats.averageBitrate)) =>
     metadata.bitrate >= Min(MathFloor(packetStats.averageBitrate), MOBILE_SAFE_BITRATE_CAP)

\* the measured bitrate is above the bitrate argument and decides the result
C24_Witness ==
  /\ Analyzed
  /\ bitrate = Num(4000000)
  /\ packetStats.averageBitrate = Div(12000001, 2)
  /\ metadata.bitrate = 6000000

\* C25 as stated: when the packet statistics fail the bitrate is the one the caller gave
\* or the default
C25_BitrateFallsBackToDefault ==
  (Analyzed /\ IsNull(packetStats.averageBitrate)) => Num(metadata.bitrate) = GivenBitrate

\* C25: with a video track the analysis never aborts the call, whichever probes fail; a
\* failed probe only sets its own result: the duration is the track's, else the
\* container's, else the inputDuration argument; without packet statistics the bitrate is
\* the given or default bitrate, rounded down and capped at 8 Mbps, and the frame rate is
\* TARGET_FRAME_RATE; the dimensions are those of the sanitized clip or 1920 x 1080
C25_ProbesAreIsolated ==
  [][ cpc = "analyze" =>
        \/ cpc' = "returned" /\ message' = "No video tracks found in input"
        \/ /\ cpc' = "count"
           /\ metadata'.duration =
                IF Usable(trackDuration') THEN trackDuration'
                ELSE IF Usable(containerDuration') THEN containerDuration'
                ELSE inputDuration
           /\ IsNull(packetStats'.averageBitrate) =>
                /\ metadata'.bitrate =
                     Min(Max(1, MathFloor(GivenBitrate)), MOBILE_SAFE_BITRATE_CAP)
                /\ metadata'.frameRate = Num(TARGET_FRAME_RATE)
           /\ dimensions' \in { sanitized, Dims(1920, 1080) } ]_allVars

\* the track duration, the packet statistics and the dimensions all failed, and the call
\* goes on with the container duration
C25_Witness ==
  /\ cpc = "count"
  /\ IsNull(trackDuration)
  /\ IsNull(packetStats.averageBitrate)
  /\ dimensions = Dims(1920, 1080)
  /\ metadata.duration = Num(4)
  /\ metadata.bitrate = 4000000

\* ---------------------------------------------------------------- read handles
\* the passes that request samples
ReadingPasses == {"sanitize", "count", "encode"}

C27_DisposalNeverFailsTheRun ==
  cpc = "returned" =>
     /\ \A k \in DOMAIN inputs : inputs[k].disposed >= 1
     /\ (\A k \in DOMAIN inputs : inputs[k].pass \in ReadingPasses => inputs[k].drained) =>
          message # "dispose failed"

\* when the call has returned, dispose() was called on every handle it opened
DisposalAttempted == cpc = "returned" => \A k \in DOMAIN inputs : inputs[k].disposed >= 1

\* ---------------------------------------------------------------- write handle
\* C28 as stated: when the call returns null after output.start(), the encoder source was
\* closed or the output was cancelled before the return
C28_WriteHandleReleasedOnAbort ==
  (returned = "null" /\ encoder # <<>>) =>
     \E k \in DOMAIN encoder : encoder[k].op \in {"close", "cancel"}

\* ---------------------------------------------------------------- progress
\* the reports of the resample loop
ResampleReports == { k \in DOMAIN reported : reported[k].message = "Resampling frames" }

\* a progress of 100 comes with status 'complete' only
CompleteOnlyAt100 ==
  \A k \in DOMAIN reported : Eq(reported[k].progress, Num(100)) => reported[k].status = "complete"

\* C29 as stated: no report is below the report before it; two reports of the resample
\* loop made at the same number of emitted frames show the same progress; 100 comes with
\* status 'complete' only
C29_MonotonicFromEmittedFrames ==
  /\ \A k \in DOMAIN reported :
       k > 1 => ~Lt(reported[k].progress, reported[k - 1].progress)
  /\ \A j, k \in ResampleReports :
       reported[j].emitted = reported[k].emitted => Eq(reported[j].progress, reported[k].progress)
  /\ CompleteOnlyAt100

\* C29: no report other than the error report is below the report before it (the error
\* report resets the progress to 0); a report of the resample loop shows
\* 45 + min(50, 50 * i / totalOutputFrames) for the loop index i, and i + 1 frames have been
\* emitted by then whenever a source frame is held; 100 comes with status 'complete' only
C29_MonotonicUntilErrorFromLoopIndex ==
  /\ \A k \in DOMAIN reported :
       (k > 1 /\ reported[k].status # "error") =>
          ~Lt(reported[k].progress, reported[k - 1].progress)
  /\ \A k \in DOMAIN reported :
       reported[k].status = "error" => (k = Len(reported) /\ Eq(reported[k].progress, Num(0)))
  /\ \A k \in ResampleReports :
       /\ Eq(reported[k].progress,
             Plus(Div(reported[k].i * 50, totalOutputFrames(outputDuration)), 45))
       /\ reported[k].i % 10 = 0
       /\ reported[k].emitted \in {0, reported[k].i + 1}
       /\ samples # <<>> => reported[k].emitted = reported[k].i + 1
  /\ CompleteOnlyAt100

\* a call of MaxProgressFrames frames completes after reports from the sanitize copy and
\* from the resample loop
C29_Witness ==
  /\ returned = "blob"
  /\ Cardinality(ResampleReports) >= 3
  /\ emitted = MaxProgressFrames
  /\ \E k \in DOMAIN reported :
       reported[k].message = "Sanitizing input video" /\ Lt(Num(0), reported[k].progress)
  /\ reported[Len(reported)].status = "complete"

\* ---------------------------------------------------------------- fades
\* C30: when applyFades has returned, fadeInSamples + fadeOutSamples is at most the buffer
\* length; the fade-in ramp touched exactly the samples [0, fadeInSamples), the fade-out
\* ramp exactly the samples [totalSamples - fadeOutSamples, totalSamples), and no sample
\* was touched by both
C30_FadeRegionsDisjoint ==
  faded =>
     /\ fadeInSamples >= 0
     /\ fadeOutSamples >= 0
     /\ fadeInSamples + fadeOutSamples <= buffer.length
     /\ \A k \in DOMAIN channelData :
          /\ channelData[k].fadedIn <=> k - 1 < fadeInSamples
          /\ channelData[k].fadedOut <=> k - 1 >= buffer.length - fadeOutSamples
          /\ ~(channelData[k].fadedIn /\ channelData[k].fadedOut)

\* two fades that together are longer than the buffer were scaled down and both applied
C30_Witness ==
  /\ faded
  /\ FadeSamples(options.fadeIn, buffer) + FadeSamples(options.fadeOut, buffer) > buffer.length
  /\ fadeInSamples > 0
  /\ fadeOutSamples > 0
  /\ fadeInSamples < FadeSamples(options.fadeIn, buffer)

\* ---------------------------------------------------------------- audio operations
\* C31: when remuxWithNewAudio or prepareAudio has returned or thrown, dispose() was called
\* on every Input the call constructed
C31_EveryReadHandleDisposed ==
  apc \in AudioDone => \A k \in DOMAIN audioInputs : audioInputs[k].disposed >= 1

\* the merged buffer is being written by the skip, write and loop-fill loops
Filling == {"skip", "write", "fill"}

\* C38: once the decoded buffers are being written into the merged buffer, the loops are
\* eventually left with writeOffset = totalSamples, whatever the lengths of the decoded
\* buffers and whatever the offset
C38_FillLoopsTerminateFull ==
  (apc \in Filling) ~> (apc \in {"output", "returned"} /\ writeOffset = mergedLength)

\* ---------------------------------------------------------------- sanitize samples
\* C32: when sanitizeVideo has returned or thrown, every sample the copy loop fetched and
\* every clone made of one is closed
C32_NoSampleLeftOpen ==
  spc \in {"returned", "thrown"} =>
     \A k \in DOMAIN fetched : ~fetched[k].open /\ fetched[k].clone # "open"

\* ---------------------------------------------------------------- cache, clips, audio failure
\* C33: while a call runs, the cache in its context is the cache the caller handed in;
\* a result of the remux-only or the medium path carries that cache unchanged (same
\* entries, same configHash), and a result of the full path carries the cache built from
\* the clips this call produced
C33_ContextCachePreserved ==
  /\ pc # "idle" => context.cachedBlobs \in {NoCache, stored}
  /\ (pc = "done" /\ result.some) =>
       /\ path \in {"fast", "medium"} => result.speedCurvedCache = context.cachedBlobs
       /\ path = "full" =>
            /\ result.speedCurvedCache.blobs = newCacheBlobs
            /\ \A id \in DOMAIN newCacheBlobs : newCacheBlobs[id].made = "this-call"
       /\ result.speedCurvedCache # context.cachedBlobs => path = "full"

\* the medium path has returned clips cached for an older configuration of the segments
C33_Witness ==
  /\ pc = "done" /\ result.some /\ path = "medium"
  /\ context.cachedBlobs.some
  /\ context.cachedBlobs.configHash # computeConfigHash(transitionVideos)
  /\ result.speedCurvedCache.configHash = context.cachedBlobs.configHash

\* stitchVideos has been called and has not failed
Stitching == pc = "stitch" \/ (pc = "done" /\ result.some /\ result.finalBlob.via = "stitch")

\* C34: the clips handed to stitchVideos are one per loaded segment, in timeline order; on
\* the medium path each is the cache entry stored under that segment's id
C34_OneClipPerLoadedSegmentInOrder ==
  Stitching =>
    LET l == Loaded(transitionVideos) IN
    /\ path \in {"medium", "full"}
    /\ Len(speedCurvedBlobs) = Len(l)
    /\ \A k \in 1..Len(l) :
         /\ speedCurvedBlobs[k].seg = l[k].id
         /\ path = "medium" => speedCurvedBlobs[k] = context.cachedBlobs.blobs[l[k].id]

\* the medium path stitches two segments out of a cache that holds a clip more
C34_Witness ==
  /\ pc = "stitch" /\ path = "medium"
  /\ Len(Loaded(transitionVideos)) >= 2
  /\ DOMAIN context.cachedBlobs.blobs # LoadedIds

\* C35: when prepareAudio settles, whether with a buffer or with an error, the call goes on
\* to stitchVideos with the same clips, no error is recorded and no 'error' event is
\* reported; a result stitched after a failed prepareAudio carries no audio
C35_AudioFailureSwallowed ==
  [][pc = "audio" =>
       /\ pc' = "stitch"
       /\ error' = NoError
       /\ \A k \in DOMAIN events' : events'[k].stage # "error"
       /\ ops' = Append(ops, "stitchVideos")
       /\ speedCurvedBlobs' = speedCurvedBlobs
       /\ events'[Len(events')] =
            Event("stitching", (IF path = "medium" THEN 25 ELSE 50) + (IF audioData' THEN 25 ELSE 0))
     ]_allVars

\* a call with an audio blob whose prepareAudio failed has ended 'complete' without audio
C35_Witness ==
  /\ pc = "done" /\ result.some
  /\ context.audioBlob
  /\ \E k \in DOMAIN ops : ops[k] = "prepareAudio"
  /\ ~audioData /\ ~result.finalBlob.audio
  /\ events[Len(events)] = Event("complete", 100)

\* ---------------------------------------------------------------- resample: frames and samples
\* C36: when applySpeedCurve has returned a blob (for an output of at least one frame),
\* exactly totalOutputFrames real frames and one padding frame were handed to the encoder
C36_BlobHasAllFramesAndPadding ==
  (returned = "blob" /\ TotalOutputFrames >= 1) =>
     /\ Len(RealFrames) = TotalOutputFrames
     /\ Len(PaddingFrames) = 1

\* the samples of the resample phase that are open
OpenSamples == { k \in DOMAIN samples : samples[k].closes = 0 }

\* C37: no sample of the resample phase is closed twice, at most two are open at a time
\* (the held source sample and one clone), and when the call has returned every sample
\* has been closed exactly once
C37_EachSampleClosedOnce ==
  /\ \A k \in DOMAIN samples : samples[k].closes <= 1
  /\ Cardinality(OpenSamples) <= 2
  /\ OpenSamples \subseteq {currentInputSample, pending}
  /\ cpc = "returned" => \A k \in DOMAIN samples : samples[k].closes = 1

\* a blob was returned after two source samples, their clones and the padding clone were
\* closed
C37_Witness ==
  /\ cpc = "returned" /\ returned = "blob"
  /\ Yielded(samples) >= 2
  /\ Len(PaddingFrames) = 1
  /\ Len(samples) >= Yielded(samples) + Len(RealFrames) + 1

\* ---------------------------------------------------------------- waveform state
\* C39: a step of a processAudio run whose effect was cleaned up (the audio file was
\* changed or cleared while it was reading or decoding) leaves waveformData, error and
\* isLoading as they are
C39_StaleProcessingUpdatesNothing ==
  [][\A k \in DOMAIN runs :
       (runs[k].isCancelled /\ runs'[k].stage # runs[k].stage) =>
          UNCHANGED <<waveformData, waveformError, isLoading>>]_allVars

====
